---- MODULE Spec2Model ----
(***************************************************************************)
(* Dharmapala Shield: the per-frame simulation core (Game, Level, Enemy,   *)
(* DefenseManager) as a state machine.                                     *)
(*                                                                         *)
(* Time is in milliseconds.  One Tick is one requestAnimationFrame frame   *)
(* (Game.gameLoop); a pending setTimeout callback is an entry of `timers`  *)
(* and runs as its own step (TimerFire).  Positions are kept along the     *)
(* x axis of a horizontal stretch of path; health is kept in quarters of   *)
(* a point so that the wave health multipliers stay exact.                 *)
(***************************************************************************)
EXTENDS Integers, Sequences, FiniteSets, TLC

VARIABLES game, enemies, projectiles, defenses, defenseManager, level,
          timers, storage, ev, used

vars == <<game, enemies, projectiles, defenses, defenseManager, level,
          timers, storage, ev, used>>

----------------------------------------------------------------------------
(* Bounds of the model                                                     *)

PathLen == 3
MaxCommands == 3
MaxProjectiles == 1
MaxTicks == 12
RushCommands == 6
RushTicks == 28
BuildCommands == 7
BuildTicks == 3
MaxBossHits == 3
BossTicks == 29

Deltas == {500}
RandDraws == {0}
ErraticDraws == {0}
MarketDraws == {FALSE, TRUE}
StealthDraws == {FALSE, TRUE}
BossWaves == {5, 15}
BossHits == {125, 250}
BossDeltas == {100}
RequireDraws == {FALSE, TRUE}
SelectKinds == {"firewall", "distributor"}
ClickPoints == {<<45, 410>>, <<50, 450>>, <<79, 479>>}

----------------------------------------------------------------------------
(* config.js                                                               *)

GRID_SIZE == 40
CANVAS_WIDTH == 1200
CANVAS_HEIGHT == 800
INITIAL_DHARMA == 100
INITIAL_BANDWIDTH == 50
INITIAL_ANONYMITY == 75
INITIAL_LIVES == 20
WAVE_DELAY == 5000
ENEMY_SPAWN_DELAY == 1000

Res(d, b, a) == [dharma |-> d, bandwidth |-> b, anonymity |-> a]

DEFENSE_TYPES ==
  [firewall    |-> [cost |-> Res(25, 0, 0),    damage |-> 15, range |-> 200, fireRate |-> 1000, special |-> "basic"],
   encryption  |-> [cost |-> Res(50, 20, 10),  damage |-> 25, range |-> 180, fireRate |-> 1500, special |-> "encrypt"],
   decoy       |-> [cost |-> Res(30, 15, 5),   damage |-> 0,  range |-> 150, fireRate |-> 0,    special |-> "decoy"],
   mirror      |-> [cost |-> Res(75, 40, 20),  damage |-> 40, range |-> 250, fireRate |-> 2000, special |-> "reflect"],
   anonymity   |-> [cost |-> Res(60, 30, 40),  damage |-> 20, range |-> 300, fireRate |-> 1200, special |-> "cloak"],
   distributor |-> [cost |-> Res(100, 60, 30), damage |-> 30, range |-> 350, fireRate |-> 800,  special |-> "boost"]]

DefenseKinds == DOMAIN DEFENSE_TYPES

\* Defense.maxLevel
maxLevel == 5

\* the longest time a defense of any kind waits between two shots
LongestInterval ==
  LET slowest == CHOOSE t \in DefenseKinds : \A u \in DefenseKinds :
                    DEFENSE_TYPES[t].fireRate >= DEFENSE_TYPES[u].fireRate
  IN  (DEFENSE_TYPES[slowest].fireRate * 13) \div 10

ENEMY_TYPES ==
  [scriptKiddie      |-> [health |-> 20,  speed |-> 80, reward |-> Res(5, 2, 1),    size |-> 15],
   federalAgent      |-> [health |-> 40,  speed |-> 60, reward |-> Res(10, 5, 3),   size |-> 18],
   corporateSaboteur |-> [health |-> 35,  speed |-> 70, reward |-> Res(15, 8, 5),   size |-> 16],
   aiSurveillance    |-> [health |-> 60,  speed |-> 50, reward |-> Res(20, 12, 8),  size |-> 20],
   quantumHacker     |-> [health |-> 80,  speed |-> 90, reward |-> Res(30, 20, 15), size |-> 22],
   corruptedMonk     |-> [health |-> 100, speed |-> 40, reward |-> Res(50, 30, 25), size |-> 25]]

\* Object.keys(CONFIG.ENEMY_TYPES), in insertion order
EnemyTypeKeys == <<"scriptKiddie", "federalAgent", "corporateSaboteur",
                   "aiSurveillance", "quantumHacker", "corruptedMonk">>

BOSS_TYPES ==
  [raidTeam      |-> [health |-> 500, speed |-> 30, reward |-> Res(100, 60, 40),  size |-> 40, phases |-> 3],
   megaCorpTitan |-> [health |-> 800, speed |-> 20, reward |-> Res(200, 120, 80), size |-> 50, phases |-> 4]]

----------------------------------------------------------------------------
(* Small helpers                                                           *)

Max(a, b) == IF a >= b THEN a ELSE b
Abs(a) == IF a >= 0 THEN a ELSE -a
Sign(a) == IF a > 0 THEN 1 ELSE IF a < 0 THEN -1 ELSE 0

\* An optional number is a set with at most one element ({} is undefined).
Some(n) == {n}
None == {}

\* F applied to the value of v, with v worked out once
Then(v, F(_)) == CHOOSE r \in {F(x) : x \in {v}} : TRUE

RECURSIVE SumOver(_, _)
SumOver(f, s) == IF s = <<>> THEN 0 ELSE f[Head(s)] + SumOver(f, Tail(s))

\* Utils.distance, squared (all comparisons below are on squares)
DistSq(x1, y1, x2, y2) == (x1 - x2) * (x1 - x2) + (y1 - y2) * (y1 - y2)

\* Utils.circleCollision: distance < r1 + r2; with r2 undefined the sum is
\* NaN and the comparison is false.
CircleCollision(distSq, r1, r2opt) ==
  \E r2 \in r2opt : distSq < (r1 + r2) * (r1 + r2)

----------------------------------------------------------------------------
(* Level: wave plans and path                                              *)

maxWaves == 20
pathWidth == 40

\* One entry of config.enemies.  health is the multiplier times 20, or
\* undefined (the swarm group of a boss wave carries no health field).
Group(t, c, d, h) == [type |-> t, count |-> c, delay |-> d, health |-> h]

\* count = max(1, floor(3 + i*0.5) + floor(Math.random() * floor(i*0.3)));
\* the draw Math.random() is r / 2.
GroupCount(i, r) ==
  Max(1, (3 + i \div 2) + (r * ((3 * i) \div 10)) \div 2)

WaveConfig(i, r) ==
  IF i % 5 = 0
    THEN [wave |-> i, bossWave |-> TRUE,
          enemies |-> << Group(IF i <= 10 THEN "raidTeam" ELSE "megaCorpTitan",
                               1, 2000, Some(20 + (i - 5) * 4)),
                         Group("scriptKiddie", 5 + i, 500, None) >>]
    ELSE [wave |-> i, bossWave |-> FALSE,
          enemies |-> [j \in 1..(IF (6 * i) \div 10 + 1 > 6 THEN 6
                                                          ELSE (6 * i) \div 10 + 1) |->
                         Group(EnemyTypeKeys[j], GroupCount(i, r),
                               ENEMY_SPAWN_DELAY, Some(20 + i))]]

generateWaveConfigs(r) == [i \in 1..maxWaves |-> WaveConfig(i, r)]

\* The stretch of path the model follows: PathLen waypoints one grid cell
\* apart on the middle row, as generatePath lays out its first leg.
PathY == ((CANVAS_HEIGHT \div GRID_SIZE) \div 2) * GRID_SIZE
generatePath == [i \in 1..PathLen |-> [x |-> (i - 1) * GRID_SIZE, y |-> PathY]]

\* Level.pointToLineDistance, squared, for the horizontal segments of the
\* path (D = 0, so the projection keeps px and takes the segment's y).
pointToLineDistance(px, py, x1, y1, x2, y2) ==
  LET A == px - x1
      C == x2 - x1
      dot == A * C
      lenSq == C * C
      xx == IF lenSq = 0 \/ dot < 0 THEN x1
            ELSE IF dot > lenSq THEN x2 ELSE px
  IN  DistSq(px, py, xx, y1)

isOnPath(x, y) ==
  \E i \in 1..(PathLen - 1) :
     pointToLineDistance(x, y, generatePath[i].x, generatePath[i].y,
                         generatePath[i + 1].x, generatePath[i + 1].y)
        <= (pathWidth \div 2) * (pathWidth \div 2)

----------------------------------------------------------------------------
(* The world a handler works on, and the record of what a step did         *)

World == [g |-> game, en |-> enemies, pr |-> projectiles, df |-> defenses,
          dm |-> defenseManager, lv |-> level, tm |-> timers,
          st |-> storage, ev |-> ev]

Install(world) ==
  \E w \in {world} :
     /\ game' = w.g
     /\ enemies' = w.en
     /\ projectiles' = w.pr
     /\ defenses' = w.df
     /\ defenseManager' = w.dm
     /\ level' = w.lv
     /\ timers' = w.tm
     /\ storage' = w.st
     /\ ev' = w.ev

\* ev describes the step that led to the current state.
Event(op) ==
  [op |-> op,
   ran |-> FALSE,           \* a tick whose Game.update got past its guard
   order |-> <<>>,          \* ... and the calls it made, in order
   dt |-> 0,                \* ... and its deltaTime
   click |-> <<0, 0>>,      \* the point of a click
   placed |-> FALSE,        \* the click placed a defense
   target |-> 0,            \* the defense or enemy a call was for
   amount |-> 0,            \* the damage of a hit
   duration |-> 0,          \* the duration a buff or debuff was applied with
   hits |-> <<>>,           \* the enemies projectiles damaged, in order
   shots |-> <<>>,          \* the shots fired: the defense, its debuff, the
                            \* enemies in its range and the stealthed ones
   upgraded |-> FALSE,      \* upgradeDefense went through to upgrade()
   activated |-> <<>>,      \* the defenses whose special ability went off
                            \* and the simulated time since it last did
   credited |-> Res(0, 0, 0),      \* rewards paid by onEnemyKilled
   killed |-> Res(0, 0, 0),        \* ... to enemies that died of damage
   reachedCredit |-> Res(0, 0, 0), \* ... to enemies that reached the end
   reachedScore |-> 0,      \* score paid for enemies that reached the end
   reached |-> 0,           \* regular enemies that reached the end
   reachedBoss |-> <<>>,    \* phase changes of each boss that reached it
   starts |-> <<>>,         \* waves started by Level.startWave
   refused |-> <<>>,        \* wave numbers Level.startWave turned down
   saved |-> FALSE,         \* SaveSystem.save returned true
   loaded |-> FALSE,        \* SaveSystem.load returned true
   warned |-> FALSE,        \* ... after its version warning
   completions |-> <<>>]    \* waves completed by Level.completeWave

Begin(w, op) == [w EXCEPT !.ev = Event(op)]

----------------------------------------------------------------------------
(* Game: the resources ledger and the terminal states                      *)

AddRes(r1, r2) == Res(r1.dharma + r2.dharma, r1.bandwidth + r2.bandwidth,
                      r1.anonymity + r2.anonymity)
SubRes(r1, r2) == Res(r1.dharma - r2.dharma, r1.bandwidth - r2.bandwidth,
                      r1.anonymity - r2.anonymity)

addResources(w, r) == [w EXCEPT !.g.resources = AddRes(@, r)]

canAfford(w, cost) ==
  /\ w.g.resources.dharma >= cost.dharma
  /\ w.g.resources.bandwidth >= cost.bandwidth
  /\ w.g.resources.anonymity >= cost.anonymity

spendResources(w, cost) == [w EXCEPT !.g.resources = SubRes(@, cost)]

----------------------------------------------------------------------------
(* SaveSystem: saving                                                      *)

\* localStorage under the keys dharmapala_shield_save_<slot>.  A key holds
\* a save document or nothing.  Game.saveGame passes its own data object
\* as the slot, which the template literal of saveToSlot turns into
\* "[object Object]".
SlotKeys == {"0", "[object Object]"}
EmptyStorage == [k \in SlotKeys |-> None]

\* SaveSystem.saveVersion '1.0.0', as version.split('.') reads it
saveVersion == <<1, 0, 0>>

\* SaveSystem.currentSlot
currentSlot == "0"

The(s) == CHOOSE x \in s : TRUE

\* Defense.getSaveData
DefenseSaveData(d) ==
  [x |-> d.x, y |-> d.y, type |-> d.type, level |-> d.level,
   experience |-> d.experience,
   experienceToNextLevel |-> d.experienceToNextLevel,
   boosted |-> d.boosted, slowed |-> d.slowed, emp |-> d.emp]

\* Enemy.getSaveData, Boss.getSaveData
EnemySaveData(e) ==
  [x |-> e.x, type |-> e.type, health |-> e.health, maxHealth |-> e.maxHealth,
   pathIndex |-> e.pathIndex, currentPhase |-> e.currentPhase,
   shieldActive |-> e.shieldActive, shieldHealth |-> e.shieldHealth,
   stealthed |-> e.stealthed]

\* SaveSystem.createGameData
createGameData(w) ==
  [state |-> w.g.state,
   resources |-> Some(w.g.resources),
   lives |-> w.g.lives,
   wave |-> w.g.wave,
   score |-> w.g.score,
   defenses |-> [k \in 1..Len(w.g.defenses) |->
                   DefenseSaveData(w.df[w.g.defenses[k]])],
   enemies |-> [k \in 1..Len(w.en) |-> EnemySaveData(w.en[k])],
   levelData |-> Some([currentWave |-> w.lv.currentWave,
                       waveInProgress |-> w.lv.waveInProgress,
                       waveTimer |-> w.lv.waveTimer])]

\* SaveSystem.validateSaveData; a missing field is None, 0 is falsy
validateSaveData(saveData) ==
  /\ saveData # None
  /\ The(saveData).version # <<>>
  /\ The(saveData).timestamp # 0
  /\ The(saveData).gameData # None
  /\ The(The(saveData).gameData).resources # None
  /\ The(The(saveData).gameData).lives # 0
  /\ The(The(saveData).gameData).wave # 0

\* SaveSystem.save(slot); the timestamp Date.now() is kept as 1
SaveSystemSave(w, slot) ==
  LET saveData == [version |-> saveVersion, timestamp |-> 1,
                   gameData |-> Some(createGameData(w))]
  IN  IF ~validateSaveData(Some(saveData)) THEN w
      ELSE [w EXCEPT !.st[slot] = Some(saveData), !.ev.saved = TRUE]

\* Game.saveGame: this.saveSystem.save(saveData)
saveGame(w) == SaveSystemSave(w, "[object Object]")

----------------------------------------------------------------------------
(* Game: the ends of a game                                                *)

\* Game.gameOver
gameOver(w) ==
  saveGame([w EXCEPT !.g.state = "game_over", !.g.isGameOver = TRUE])
\* a victory that raises the flag and leaves the state alone
victoryFlagOnly(w) == [w EXCEPT !.g.isVictory = TRUE]

\* Game.victory
victory(w) ==
  saveGame([w EXCEPT !.g.state = "victory", !.g.isVictory = TRUE])

checkGameOver(w) ==
  IF w.g.lives <= 0 /\ ~w.g.isGameOver THEN gameOver(w) ELSE w

\* AchievementManager.checkAchievement: an id that was never registered
\* returns at once.  The ids the game passes are not registered ones.
RegisteredAchievements ==
  {"firstBlood", "enemySlayer", "bossHunter", "perfectWave", "towerBuilder",
   "defenseMaster", "upgradeExpert", "efficientBuilder", "wealthyMonk",
   "bandwidthKing", "anonymousMaster", "resourceManager", "waveSurvivor",
   "enduranceMaster", "speedRunner", "perfectionist", "secretPath",
   "zenMaster", "cyberNinja", "digitalSavior"}

checkAchievement(w, id) ==
  IF id \notin RegisteredAchievements THEN w
  ELSE [w EXCEPT !.g.achievementChecks = @ + 1]

----------------------------------------------------------------------------
(* Enemy                                                                   *)

\* An enemy's x and targetX are held in 125ths of a pixel and its speed in
\* hundredths of a pixel per second: at that grain every step the frames
\* of the model take, and every speed a phase change leaves, is exact.
SubPx(px) == 125 * px

updateTarget(e) ==
  IF e.pathIndex < PathLen - 1
    THEN [e EXCEPT !.pathIndex = @ + 1,
                   !.targetX = SubPx(generatePath[e.pathIndex + 2].x)]
    ELSE [e EXCEPT !.reachedEnd = TRUE]

\* new Enemy(game, path[0].x, path[0].y, type), then the health that
\* Level.spawnEnemy writes over it.  No field `radius` is ever set.
NewEnemy(type, health) ==
  updateTarget(
    [type |-> type, boss |-> FALSE, id |-> 0,
     x |-> SubPx(generatePath[1].x), targetX |-> SubPx(generatePath[1].x),
     health |-> health, maxHealth |-> health,
     speed |-> 100 * ENEMY_TYPES[type].speed,
     damage |-> 1,
     reward |-> ENEMY_TYPES[type].reward,
     radius |-> None,
     currentPhase |-> 0, phases |-> 0, phaseChanges |-> 0,
     shieldActive |-> FALSE, shieldHealth |-> 0,
     minionSpawnTimer |-> 0, empBlastTimer |-> 0, shieldRegenTimer |-> 0,
     pathIndex |-> 0, reachedEnd |-> FALSE, isDead |-> FALSE,
     byDamage |-> FALSE, stealthed |-> 0])

\* new Boss(game, path[0].x, path[0].y, type) as the body of Boss's
\* constructor and initializeBossBehavior leave it, then the health that
\* Level.spawnEnemy writes over it
NewBoss(type, health) ==
  updateTarget(
    [type |-> type, boss |-> TRUE, id |-> 0,
     x |-> SubPx(generatePath[1].x), targetX |-> SubPx(generatePath[1].x),
     health |-> health, maxHealth |-> health,
     speed |-> 100 * BOSS_TYPES[type].speed,
     damage |-> 5,
     reward |-> BOSS_TYPES[type].reward,
     radius |-> None,
     currentPhase |-> 1, phases |-> BOSS_TYPES[type].phases,
     phaseChanges |-> 0,
     shieldActive |-> type = "megaCorpTitan",
     shieldHealth |-> IF type = "megaCorpTitan" THEN 100 ELSE 0,
     minionSpawnTimer |-> IF type = "raidTeam" THEN 3000 ELSE 0,
     empBlastTimer |-> IF type = "raidTeam" THEN 8000 ELSE 0,
     shieldRegenTimer |-> IF type = "megaCorpTitan" THEN 6000 ELSE 0,
     pathIndex |-> 0, reachedEnd |-> FALSE, isDead |-> FALSE,
     byDamage |-> FALSE, stealthed |-> 0])

\* speed * deltaTime * 0.001 for a speed of num/den hundredths, in 125ths.
\* The arithmetic is exact; the doubles of the program differ from it in
\* their last bits, which can move an arrival at a waypoint by a frame.
StepPx(num, den, dt) == (num * dt) \div (den * 800)

\* Enemy.updateNormalMovement
updateNormalMovement(e, dt, num, den) ==
  LET dx == e.targetX - e.x
  IN  IF Abs(dx) > SubPx(2)
        THEN [e EXCEPT !.x = @ + Sign(dx) * StepPx(num, den, dt)]
        ELSE updateTarget(e)

\* DefenseManager.getNearestDefense(x, y, maxRange) is not null
HasNearestDefense(w, x, y, maxRange) ==
  \E i \in 1..Len(w.dm.defenses) :
     LET d == w.df[w.dm.defenses[i]]
     IN  DistSq(x, SubPx(y), SubPx(d.x + GRID_SIZE \div 2),
                SubPx(d.y + GRID_SIZE \div 2))
           < SubPx(maxRange) * SubPx(maxRange)

\* Enemy.applyStatusEffect for the kind 'stealthed', the one kind of the
\* enemies' statusEffects map that the model keeps: the remaining duration,
\* 0 when the map has no entry of the kind.  Map.set replaces the entry.
applyStatusEffect(e, duration) == [e EXCEPT !.stealthed = duration]

\* Enemy.updateStatusEffects: an entry is deleted at a duration <= 0
updateStatusEffects(e, dt) ==
  [e EXCEPT !.stealthed = IF @ > 0 THEN Max(0, @ - dt) ELSE 0]

\* Enemy.updateStealthMovement; hide is the draw Math.random() < 0.01
updateStealthMovement(e, dt, hide) ==
  updateNormalMovement(
    IF e.stealthed = 0 /\ hide THEN applyStatusEffect(e, 2000) ELSE e,
    dt, e.speed, 1)

\* Enemy.updateMovement: the per-type patterns.  jit is the erratic
\* offset (randomX * deltaTime * 0.001) drawn for this frame, hide the
\* draw of a corporateSaboteur.
updateMovement(e, dt, w, jit, hide) ==
  IF e.reachedEnd THEN e
  ELSE CASE e.type = "scriptKiddie" ->
              LET m == updateNormalMovement(e, dt, e.speed, 1)
              IN  [m EXCEPT !.x = @ + jit]
         [] e.type = "federalAgent" ->
              IF HasNearestDefense(w, e.x, PathY, 200)
                THEN updateNormalMovement(e, dt, e.speed * 3, 2)
                ELSE updateNormalMovement(e, dt, e.speed, 1)
         [] e.type = "corporateSaboteur" ->
              updateStealthMovement(e, dt, hide)
         [] e.type = "corruptedMonk" ->
              updateNormalMovement(e, dt, e.speed * 7, 10)
         [] OTHER -> updateNormalMovement(e, dt, e.speed, 1)

\* Enemy.takeDamage (default damageType 'fire', resistance 1) and die
die(e) == [e EXCEPT !.isDead = TRUE, !.byDamage = TRUE, !.stealthed = 0]

\* Enemy.takeDamage; the health is kept in quarters of a point
takeQuarters(e, quarters) ==
  LET h == [e EXCEPT !.health = @ - quarters]
  IN  IF h.health <= 0 THEN die(h) ELSE h

takeDamage(e, amount) == takeQuarters(e, 4 * amount)

\* An enemy that takes two lives at the end of the path
EnemyUpdateTwoLives(w, e, dt, jit, hide) ==
  IF e.isDead THEN e
  ELSE LET m == updateMovement(updateStatusEffects(e, dt), dt, w, jit, hide)
       IN  IF m.reachedEnd
             THEN [m EXCEPT !.isDead = TRUE, !.damage = 2]
             ELSE m

\* Enemy.update: status effects, movement, then checkEndReached on the
\* enemy itself (what checkEndReached takes from game.lives is in
\* Game.updateEnemies below)
EnemyUpdate(w, e, dt, jit, hide) ==
  IF e.isDead THEN e
  ELSE LET m == updateMovement(updateStatusEffects(e, dt), dt, w, jit, hide)
       IN  IF m.reachedEnd THEN [m EXCEPT !.isDead = TRUE] ELSE m

----------------------------------------------------------------------------
(* Boss                                                                    *)

\* Boss.takeDamage: the shield takes the hit first, Enemy.takeDamage the
\* rest
\* A shield that is worn down while the hit goes through to the health
BossTakeDamageThrough(e, amount) ==
  LET shielded == e.shieldActive /\ e.shieldHealth > 0
      left == IF amount >= e.shieldHealth THEN 0 ELSE e.shieldHealth - amount
      s == IF ~shielded THEN e
           ELSE [e EXCEPT !.shieldHealth = left, !.shieldActive = left > 0]
  IN  takeDamage(s, amount)

BossTakeDamage(e, amount) ==
  LET shielded == e.shieldActive /\ e.shieldHealth > 0
      shieldDamage == IF ~shielded THEN 0
                      ELSE IF amount <= e.shieldHealth THEN amount
                      ELSE e.shieldHealth
      left == e.shieldHealth - shieldDamage
      s == IF ~shielded THEN e
           ELSE [e EXCEPT !.shieldHealth = IF left <= 0 THEN 0 ELSE left,
                          !.shieldActive = ~(left <= 0)]
  IN  IF amount - shieldDamage > 0
        THEN takeDamage(s, amount - shieldDamage)
        ELSE s

\* A phase change that doubles the life-loss amount
onPhaseChangeDoubling(e) ==
  [e EXCEPT !.speed = (@ * 6) \div 5,
            !.damage = @ * 2,
            !.phaseChanges = @ + 1]

\* Boss.onPhaseChange: speed *= 1.2; damage = floor(damage * 1.3)
onPhaseChange(e) ==
  [e EXCEPT !.speed = (@ * 6) \div 5,
            !.damage = (@ * 13) \div 10,
            !.phaseChanges = @ + 1]

\* Phases that change at every quarter of the health lost
updatePhasesByQuarters(e) ==
  LET newPhase == 1 + (4 * (e.maxHealth - e.health)) \div e.maxHealth
  IN  IF newPhase > e.currentPhase
        THEN onPhaseChange([e EXCEPT !.currentPhase = newPhase])
        ELSE e

\* Boss.updatePhases: newPhase = ceil((1 - health / maxHealth) * phases)
updatePhases(e) ==
  LET newPhase == ((e.maxHealth - e.health) * e.phases + e.maxHealth - 1)
                     \div e.maxHealth
  IN  IF newPhase > e.currentPhase
        THEN onPhaseChange([e EXCEPT !.currentPhase = newPhase])
        ELSE e

\* Boss.regenerateShield
regenerateShield(e) ==
  [e EXCEPT !.shieldActive = TRUE,
            !.shieldHealth = IF @ + 50 > 100 THEN 100 ELSE @ + 50]

\* Boss.updateBossBehavior, on the boss itself.  What spawnMinions and
\* performEMPBlast do to the field lies off the line the model keeps its
\* enemies on; the frames in which they run are beyond the frames BossTick
\* takes.  performMarketManipulation is in Game.updateEnemies below.
updateBossBehavior(e, dt) ==
  IF e.type = "raidTeam"
    THEN [e EXCEPT
            !.minionSpawnTimer = IF @ > 0 THEN @ - dt ELSE 5000,
            !.empBlastTimer = IF @ > 0 THEN @ - dt ELSE 10000]
  ELSE IF e.type = "megaCorpTitan"
    THEN IF e.shieldRegenTimer > 0
           THEN [e EXCEPT !.shieldRegenTimer = @ - dt]
           ELSE [regenerateShield(e) EXCEPT !.shieldRegenTimer = 8000]
  ELSE e

\* Boss.update: phases, movement, behaviour, then checkEndReached
BossUpdate(w, e, dt) ==
  IF e.isDead THEN e
  ELSE LET p == updatePhases(e)
           m == updateMovement(updateStatusEffects(p, dt), dt, w, 0, FALSE)
           b == updateBossBehavior(m, dt)
       IN  IF b.reachedEnd THEN [b EXCEPT !.isDead = TRUE] ELSE b

\* Boss.performMarketManipulation on the resources
Stolen(res) ==
  Res(Max(0, res.dharma - res.dharma \div 10),
      Max(0, res.bandwidth - res.bandwidth \div 10),
      Max(0, res.anonymity - res.anonymity \div 10))

----------------------------------------------------------------------------
(* Level: the wave scheduler                                               *)

\* A pending setTimeout callback.  rem is the time left; kind "spawn" runs
\* spawnEnemy(type, health), kind "group" runs spawnEnemyGroup(gi).  cur
\* records whether the callback descends from the latest startWave.
SpawnTimer(rem, g, cur) ==
  [rem |-> rem, kind |-> "spawn", type |-> g.type, health |-> g.health,
   gi |-> 0, cur |-> cur]
GroupTimer(rem, gi, cur) ==
  [rem |-> rem, kind |-> "group", type |-> "", health |-> None,
   gi |-> gi, cur |-> cur]

NoWaveConfig == [wave |-> 0, bossWave |-> FALSE, enemies |-> <<>>]

\* Level.spawnEnemyGroup(groupIndex): groupIndex counts from 0
spawnEnemyGroup(w, groupIndex, cur) ==
  LET groups == w.lv.currentWaveConfig.enemies
  IN  IF groupIndex >= Len(groups) THEN w
      ELSE LET enemyGroup == groups[groupIndex + 1]
               spawns == [i \in 1..enemyGroup.count |->
                            SpawnTimer((i - 1) * enemyGroup.delay,
                                       enemyGroup, cur)]
               next == IF groupIndex < Len(groups) - 1
                         THEN << GroupTimer(enemyGroup.count * enemyGroup.delay
                                              + 1000, groupIndex + 1, cur) >>
                         ELSE <<>>
           IN  [w EXCEPT !.tm = @ \o spawns \o next]

GroupCounts(groups) == [j \in 1..Len(groups) |-> groups[j].count]

\* Level.startWave(waveNumber)
startWave(w, waveNumber) ==
  IF waveNumber > maxWaves
    THEN victory([w EXCEPT !.ev.refused = Append(@, waveNumber),
                           !.lv.idle = -1])
  ELSE LET waveConfig == w.lv.waveConfigs[waveNumber]
           counts == GroupCounts(waveConfig.enemies)
           w1 == [w EXCEPT
                    !.ev.starts = Append(@,
                       [wave |-> waveNumber,
                        wasInProgress |-> w.lv.waveInProgress,
                        previous |-> w.lv.currentWave]),
                    !.tm = [k \in 1..Len(w.tm) |-> [w.tm[k] EXCEPT !.cur = FALSE]],
                    !.lv.currentWave = waveNumber,
                    !.lv.waveInProgress = TRUE,
                    !.lv.enemiesSpawned = 0,
                    !.lv.enemiesToSpawn =
                       SumOver(counts, [j \in 1..Len(counts) |-> j]),
                    !.lv.currentWaveConfig = waveConfig,
                    !.lv.ownSpawned = 0,
                    !.lv.bossCalls = 0,
                    !.lv.bossSpawned = 0,
                    !.lv.idle = -1]
       IN  Then(w1, LAMBDA started : spawnEnemyGroup(started, 0, TRUE))

\* enemyConfig.health * healthMultiplier, in quarter points; the group's
\* multiplier is in twentieths and defaults to 1 when the group has none
ScaledHealth(base, health) ==
  IF health = None THEN 4 * base
  ELSE (base * (CHOOSE h \in health : TRUE)) \div 5

\* Level.spawnEnemy(enemyType, healthMultiplier)
spawnEnemy(w, enemyType, health, cur) ==
  LET isBoss == enemyType \in DOMAIN BOSS_TYPES
      called == [w EXCEPT !.lv.bossCalls =
                            @ + (IF isBoss /\ cur THEN 1 ELSE 0)]
  IN  IF enemyType \notin DOMAIN ENEMY_TYPES THEN called
      ELSE LET enemy ==
                 IF isBoss
                   THEN NewBoss(enemyType,
                          ScaledHealth(BOSS_TYPES[enemyType].health, health))
                   ELSE NewEnemy(enemyType,
                          ScaledHealth(ENEMY_TYPES[enemyType].health, health))
           IN  [called EXCEPT
                  !.en = Append(@, enemy),
                  !.lv.enemiesSpawned = @ + 1,
                  !.lv.ownSpawned = @ + (IF cur THEN 1 ELSE 0),
                  !.lv.bossSpawned = @ + (IF isBoss /\ cur THEN 1 ELSE 0)]

\* A completion bonus that forgets the wave number
WaveBonusFlat(w) == Res(50, 25, 15)

\* Level.completeWave
WaveBonus(w) ==
  LET totalBonus == 50 + w.lv.currentWave * 10
  IN  Res(totalBonus, totalBonus \div 2, (totalBonus * 3) \div 10)

completeWave(w) ==
  LET paid == [w EXCEPT
                 !.ev.completions = Append(@,
                    [wave |-> w.lv.currentWave,
                     planned |-> SumOver(
                        GroupCounts(w.lv.currentWaveConfig.enemies),
                        [j \in 1..Len(w.lv.currentWaveConfig.enemies) |-> j]),
                     ownSpawned |-> w.lv.ownSpawned,
                     pending |-> Cardinality(
                        {k \in 1..Len(w.tm) : w.tm[k].cur}),
                     alive |-> Len(w.en)]),
                 !.lv.waveInProgress = FALSE,
                 !.g.resources = AddRes(@, WaveBonus(w)),
                 !.lv.waveTimer = WAVE_DELAY,
                 !.lv.idle = 0]
  IN  checkAchievement(paid, "wavesCompleted")

\* a wave timer that starts the next wave a frame early
LevelTimerEarly(w, dt) ==
  IF w.lv.waveTimer > 0
    THEN LET t == [w EXCEPT !.lv.waveTimer = @ - dt]
         IN  IF t.lv.waveTimer <= dt /\ ~t.lv.waveInProgress
               THEN startWave(t, t.lv.currentWave + 1)
               ELSE t
    ELSE w

\* Level.update(deltaTime): the wave timer
LevelTimer(w, dt) ==
  IF w.lv.waveTimer > 0
    THEN LET t == [w EXCEPT !.lv.waveTimer = @ - dt]
         IN  IF t.lv.waveTimer <= 0 /\ ~t.lv.waveInProgress
               THEN startWave(t, t.lv.currentWave + 1)
               ELSE t
    ELSE w

\* lv.idle is the time Level.update has been given since the last wave
\* completed and no wave was asked for (-1 when none is awaited)
LevelUpdate(w, dt) ==
  Then(LevelTimer([w EXCEPT !.lv.idle = IF @ >= 0 THEN @ + dt ELSE @], dt),
       LAMBDA t :
    IF t.lv.waveInProgress
       /\ t.lv.enemiesSpawned >= t.lv.enemiesToSpawn
       /\ Len(t.en) = 0
      THEN completeWave(t)
      ELSE t)

\* Level.reset (generatePath lays the same path out again)
LevelReset(w) ==
  [w EXCEPT !.lv.currentWave = 0,
            !.lv.waveInProgress = FALSE,
            !.lv.waveTimer = WAVE_DELAY,
            !.lv.enemiesSpawned = 0,
            !.lv.enemiesToSpawn = 0,
            !.lv.idle = -1]

----------------------------------------------------------------------------
(* Game: one frame                                                         *)

RemoveAt(s, i) == SubSeq(s, 1, i - 1) \o SubSeq(s, i + 1, Len(s))

Indices(n) == [i \in 1..n |-> i]

\* the sum of the rewards of the enemies of seq whose indices are in idx
RewardSum(seq, idx) ==
  LET on(i) == i \in idx
      is == SelectSeq(Indices(Len(seq)), on)
  IN  Res(SumOver([i \in 1..Len(seq) |-> seq[i].reward.dharma], is),
          SumOver([i \in 1..Len(seq) |-> seq[i].reward.bandwidth], is),
          SumOver([i \in 1..Len(seq) |-> seq[i].reward.anonymity], is))

\* The resources after the loop of Game.updateEnemies, which runs from the
\* last enemy to the first: a titan's theft comes in its update, the reward
\* of an enemy found dead right after its update.
RECURSIVE PayFrom(_, _, _, _, _)
PayFrom(res, upd, stole, dead, i) ==
  IF i = 0 THEN res
  ELSE Then(IF i \in stole THEN Stolen(res) ELSE res, LAMBDA a :
       Then(IF i \in dead THEN AddRes(a, upd[i].reward) ELSE a, LAMBDA b :
            PayFrom(b, upd, stole, dead, i - 1)))

\* Game.updateEnemies.  Every enemy is updated; an enemy found dead goes
\* through Game.onEnemyKilled (reward, score + 10 as enemy.scoreValue is
\* never set, an achievement check) and is spliced out; one that is not
\* dead but has reachedEnd goes through Game.onEnemyReachedEnd (a life, and
\* gameOver at zero) and is spliced out.  The updates do not read what the
\* loop writes, so the loop is taken as a whole.
updateEnemies(w, dt, jit, steal, hide) ==
  LET n == Len(w.en)
      upd == [i \in 1..n |->
                IF w.en[i].boss THEN BossUpdate(w, w.en[i], dt)
                ELSE EnemyUpdate(w, w.en[i], dt, jit, hide)]
      stole == {i \in 1..n : /\ steal
                              /\ ~w.en[i].isDead
                              /\ w.en[i].type = "megaCorpTitan"}
      ended == {i \in 1..n : ~w.en[i].isDead /\ upd[i].reachedEnd}
      dead == {i \in 1..n : upd[i].isDead}
      walked == {i \in 1..n : ~upd[i].isDead /\ upd[i].reachedEnd}
      isEnded(i) == i \in ended
      isBossEnded(i) == i \in ended /\ upd[i].boss
      stays(e) == ~e.isDead /\ ~e.reachedEnd
      lives == w.g.lives
                 - SumOver([i \in 1..n |-> upd[i].damage],
                           SelectSeq(Indices(n), isEnded))
                 - Cardinality(walked)
      paid == [w EXCEPT
                 !.en = SelectSeq(upd, stays),
                 !.g.lives = lives,
                 !.g.resources =
                    IF stole = {} THEN AddRes(@, RewardSum(upd, dead))
                    ELSE PayFrom(@, upd, stole, dead, n),
                 !.g.score = @ + 10 * Cardinality(dead),
                 !.ev.credited = RewardSum(upd, dead),
                 !.ev.killed =
                    RewardSum(upd, {i \in dead : upd[i].byDamage}),
                 !.ev.reachedCredit =
                    RewardSum(upd, {i \in dead : upd[i].reachedEnd}),
                 !.ev.reachedScore =
                    10 * Cardinality({i \in dead : upd[i].reachedEnd}),
                 !.ev.reached =
                    Cardinality({i \in ended : ~upd[i].boss}),
                 !.ev.reachedBoss =
                    [k \in 1..Len(SelectSeq(Indices(n), isBossEnded)) |->
                       upd[SelectSeq(Indices(n), isBossEnded)[k]].phaseChanges]]
      checked == IF dead # {} THEN checkAchievement(paid, "enemiesKilled")
                 ELSE paid
  IN  IF walked # {} /\ lives <= 0 THEN gameOver(checked) ELSE checked

\* The enemy a projectile is aimed at, as an index of the field; 0 when it
\* is no longer there.  Enemies carry an identity only where projectiles
\* are followed to their targets; elsewhere every identity is 0.
TargetIndex(w, p) ==
  IF \E k \in 1..Len(w.en) : w.en[k].id = p.target
    THEN CHOOSE k \in 1..Len(w.en) : w.en[k].id = p.target
    ELSE 0

\* enemy.takeDamage(projectile.damage) by projectile pi on enemy k
Damage(w, pi, k) ==
  [w EXCEPT !.en[k] = takeDamage(@, w.pr[pi].damage),
            !.pr[pi].damaged = Append(@, w.en[k].id),
            !.ev.hits = Append(@, w.en[k].id)]

\* Projectile.applySplashDamage: half the damage to the other enemies within
\* splashRadius of the projectile, of which the model knows the one the
\* projectile overlaps
applySplashDamage(w, pi, t, touch) ==
  IF w.pr[pi].splash /\ touch > 0 /\ touch # t
    THEN [w EXCEPT !.en[touch] = takeQuarters(@, 2 * w.pr[pi].damage)]
    ELSE w

\* Projectile.applySpecialEffects on the target t: 'stealthed' for 500 ms
\* from an anonymity projectile, 'boosted' for 1000 ms on the defenses
\* within 100 of a distributor projectile, which is where its target is
\* ('scrambled' is a kind the model does not keep)
applySpecialEffects(w, pi, t) ==
  LET e == w.en[t]
      near(j) ==
        /\ \E i \in 1..Len(w.g.defenses) : w.g.defenses[i] = j
        /\ DistSq(e.x, SubPx(PathY), SubPx(w.df[j].x + GRID_SIZE \div 2),
                  SubPx(w.df[j].y + GRID_SIZE \div 2))
              <= SubPx(100) * SubPx(100)
  IN  CASE w.pr[pi].type = "anonymity" ->
             [w EXCEPT !.en[t] = applyStatusEffect(@, 500)]
        [] w.pr[pi].type = "distributor" ->
             [w EXCEPT !.df = [j \in 1..Len(w.df) |->
                                 IF near(j)
                                   THEN [w.df[j] EXCEPT !.boosted = 1000]
                                   ELSE w.df[j]]]
        [] OTHER -> w

\* Projectile.hit
ProjectileHit(w, pi, touch) ==
  LET p == w.pr[pi]
      t == TargetIndex(w, p)
  IN  IF t = 0 THEN w
      ELSE IF w.en[t].isDead THEN w
      ELSE IF p.piercing /\ p.target \in p.piercedTargets THEN w
      ELSE LET a == Damage(w, pi, t)
               b == IF p.piercing
                      THEN [a EXCEPT !.pr[pi].piercedTargets = @ \cup {p.target}]
                      ELSE a
               c == applySplashDamage(b, pi, t, touch)
               d == applySpecialEffects(c, pi, t)
           IN  [d EXCEPT !.pr[pi].isActive = p.piercing]

\* Projectile.update for projectile pi -> checkCollisions.  touch is the
\* enemy the projectile overlaps in this frame (0 for none): its centre is
\* on the projectile's, the position of a projectile not being kept.
\* Projectile.checkCollisions compares the distance to its target with
\* target.radius + radius; with the target gone, findNewTarget gives a
\* homing projectile the nearest enemy.
ProjectileUpdate(w, pi, touch) ==
  LET p == w.pr[pi]
      t == TargetIndex(w, p)
      gone == IF t = 0 THEN TRUE ELSE w.en[t].isDead
  IN  IF ~p.isActive THEN w
      ELSE IF gone
        THEN IF p.homing /\ touch > 0
               THEN [w EXCEPT !.pr[pi].target = w.en[touch].id]
               ELSE w
      ELSE IF touch = t /\ CircleCollision(0, p.radius, w.en[t].radius)
        THEN ProjectileHit(w, pi, touch)
        ELSE w

\* Game.checkProjectileCollisions(projectile): the first enemy of the list
\* that Utils.circleCollision finds takes the damage, then projectile.hit()
checkProjectileCollisions(w, pi, touch) ==
  IF touch = 0 THEN w
  ELSE IF CircleCollision(0, w.pr[pi].radius, w.en[touch].radius)
         THEN ProjectileHit(Damage(w, pi, touch), pi, touch)
         ELSE w

\* Game.updateProjectiles, one projectile
UpdateProjectileAt(w, pi, touch) ==
  LET u == ProjectileUpdate(w, pi, touch)
  IN  IF ~u.pr[pi].isActive
        THEN [u EXCEPT !.pr = RemoveAt(@, pi)]
        ELSE checkProjectileCollisions(u, pi, touch)

RECURSIVE UpdateProjectilesFrom(_, _, _)
UpdateProjectilesFrom(w, pi, touch) ==
  IF pi = 0 THEN w
  ELSE UpdateProjectilesFrom(UpdateProjectileAt(w, pi, touch), pi - 1, touch)

updateProjectiles(w, touch) == UpdateProjectilesFrom(w, Len(w.pr), touch)

\* Defense.isValidTarget / findBestTarget: some live enemy is in range
\* The squares of sub-pixel lengths pass 2^31: they are kept as two digits
\* to the base 10^6, which is exact.
SqBig(x) ==
  LET hi == Abs(x) \div 1000
      lo == Abs(x) % 1000
      low == 2000 * hi * lo + lo * lo
  IN  <<hi * hi + low \div 1000000, low % 1000000>>

AddBig(m, n) == <<m[1] + n[1] + (m[2] + n[2]) \div 1000000, (m[2] + n[2]) % 1000000>>

LeqBig(m, n) == m[1] < n[1] \/ (m[1] = n[1] /\ m[2] <= n[2])

InRange(d, e) ==
  LeqBig(AddBig(SqBig(SubPx(d.x + GRID_SIZE \div 2) - e.x),
                SqBig(SubPx(d.y + GRID_SIZE \div 2) - SubPx(PathY))),
         SqBig(SubPx(d.range)))

HasTarget(w, d) == \E k \in 1..Len(w.en) : ~w.en[k].isDead /\ InRange(d, w.en[k])

\* Defense.getDamage (no code applies `weakened` to a defense)
getDamage(d) == IF d.boosted > 0 THEN (d.damage * 3) \div 2 ELSE d.damage

\* Defense.getFireRate without its lower bound, in tenths of a millisecond
FireRateUnbounded(d) ==
  LET boosted == IF d.boosted > 0 THEN (10 * d.fireRate * 7) \div 10
                 ELSE 10 * d.fireRate
  IN  IF d.slowed > 0 THEN (boosted * 13) \div 10 ELSE boosted

\* Defense.getFireRate, in tenths of a millisecond.  Every fire rate of
\* the model is a multiple of 10 ms, which makes the products exact.
getFireRate(d) == Max(10 * 100, FireRateUnbounded(d))

\* new Projectile(...) as Defense.fire builds it
\* and Projectile.initializeSpecialProperties
NewProjectile(d) ==
  [type |-> d.type, target |-> 0, damage |-> getDamage(d),
   radius |-> CASE d.type \in {"encryption", "anonymity"} -> 3
                [] d.type = "mirror" -> 5
                [] d.type = "distributor" -> 6
                [] OTHER -> 4,
   piercing |-> d.type = "encryption",
   homing |-> d.type = "anonymity",
   splash |-> d.type = "distributor",
   piercedTargets |-> {},
   damaged |-> <<>>,
   isActive |-> TRUE]

\* Defense.updateBuffs, Defense.updateDebuffs: a duration of 0 is no entry
updateBuffs(d, dt) ==
  [d EXCEPT !.boosted = IF @ > 0 THEN Max(0, @ - dt) ELSE 0,
            !.slowed = IF @ > 0 THEN Max(0, @ - dt) ELSE 0,
            !.emp = IF @ > 0 THEN Max(0, @ - dt) ELSE 0]

\* Defense.boostNearbyDefenses of the distributor with id k
boostNearbyDefenses(w, k) ==
  LET d == w.df[k]
      near(j) ==
        /\ j # k
        /\ \E i \in 1..Len(w.g.defenses) : w.g.defenses[i] = j
        /\ 25 * DistSq(d.x, d.y, w.df[j].x, w.df[j].y)
              <= 16 * d.range * d.range
  IN  [w EXCEPT !.df = [j \in 1..Len(w.df) |->
                          IF near(j) THEN [w.df[j] EXCEPT !.boosted = 2000]
                          ELSE w.df[j]]]

\* Defense.fire -> applyFireEffects
applyFireEffects(w, k) ==
  IF w.df[k].type = "distributor" THEN boostNearbyDefenses(w, k) ELSE w

\* Defense.deactivateSpecialAbility
deactivateSpecialAbility(d) ==
  [d EXCEPT !.specialAbilityActive = FALSE, !.specialAbilityDuration = 0]

\* Defense.updateSpecialAbility(deltaTime)
updateSpecialAbility(d, dt) ==
  LET ran == IF d.specialAbilityActive
               THEN [d EXCEPT !.specialAbilityDuration = @ - dt]
               ELSE d
      off == IF ran.specialAbilityActive /\ ran.specialAbilityDuration <= 0
               THEN deactivateSpecialAbility(ran)
               ELSE ran
  IN  [off EXCEPT !.specialAbilityCooldown = IF @ > 0 THEN @ - dt ELSE @]

\* a cooldown that only waits for the ability to end
hasSpecialAbilityOnceOver(d) == ~d.specialAbilityActive

\* Defense.hasSpecialAbility
hasSpecialAbility(d) == d.specialAbilityCooldown <= 0

\* the setTimeout callback of Defense.activateResourceBoost
BoostTimer(rem) ==
  [rem |-> rem, kind |-> "boost", type |-> "", health |-> None,
   gi |-> 0, cur |-> FALSE]

\* Defense.activateResourceBoost of the defense with id k
activateResourceBoost(w, k) ==
  [w EXCEPT !.g.resourceBoost = 2,
            !.tm = Append(@, BoostTimer(w.df[k].specialAbilityDuration))]

\* Defense.applySpecialAbilityEffects: the barrier of the firewall is
\* particles, the other kinds set buffs named encrypted, reflection and
\* cloaked, which nothing reads
applySpecialAbilityEffects(w, k) ==
  IF w.df[k].type = "distributor" THEN activateResourceBoost(w, k) ELSE w

\* Defense.activateSpecialAbility of the defense with id k
activateSpecialAbility(w, k) ==
  IF ~hasSpecialAbility(w.df[k]) THEN w
  ELSE applySpecialAbilityEffects(
         [w EXCEPT !.df[k].specialAbilityActive = TRUE,
                   !.df[k].specialAbilityDuration = 5000,
                   !.df[k].specialAbilityCooldown = 30000,
                   !.df[k].abilityAge = 0,
                   !.ev.activated = Append(@,
                      [defense |-> k, age |-> w.df[k].abilityAge])], k)

\* Defense.update for the defense with id k: updateBuffs, updateDebuffs,
\* updateSpecialAbility,
\* updateFiring -> fire.  waited is Date.now() - lastFireTime, kept at
\* LongestInterval once it is beyond it.
DefenseUpdate(w, k, dt) ==
  IF ~w.df[k].isActive THEN w
  ELSE LET d == updateSpecialAbility(updateBuffs(w.df[k], dt), dt)
           timed == [w EXCEPT !.df[k] = d]
       IN  IF /\ DEFENSE_TYPES[d.type].special # "decoy"
              /\ HasTarget(w, d)
              /\ 10 * d.waited >= getFireRate(d)
              /\ Len(w.pr) < MaxProjectiles
             THEN applyFireEffects(
                    [timed EXCEPT
                       !.pr = Append(@, NewProjectile(d)),
                       !.df[k].waited = 0,
                       !.ev.shots = Append(@,
                          [defense |-> k, emp |-> d.emp,
                           inRange |-> {i \in 1..Len(w.en) :
                                          /\ ~w.en[i].isDead
                                          /\ InRange(d, w.en[i])},
                           stealthed |-> {i \in 1..Len(w.en) :
                                            w.en[i].stealthed > 0}])], k)
             ELSE timed

RECURSIVE UpdateDefensesFrom(_, _, _)
UpdateDefensesFrom(w, i, dt) ==
  IF i > Len(w.g.defenses) THEN w
  ELSE UpdateDefensesFrom(DefenseUpdate(w, w.g.defenses[i], dt), i + 1, dt)

updateDefenses(w, dt) == UpdateDefensesFrom(w, 1, dt)

\* Game.updateTimers (the auto-save writes a key that load never reads)
updateTimers(w, dt) ==
  IF w.g.waveTimer > 0 THEN [w EXCEPT !.g.waveTimer = @ - dt] ELSE w

\* ev.order lists the calls of Game.update as they are made
Stage(w, name) == [w EXCEPT !.ev.order = Append(@, name)]

\* Game.update(deltaTime); updateParticles and uiManager.update draw
GameUpdate(w, dt, jit, touch, steal, hide) ==
  IF w.g.state \in {"paused", "menu", "loading"} THEN w
  ELSE Then(LevelUpdate(Stage([w EXCEPT !.ev.ran = TRUE, !.ev.dt = dt],
                              "level.update"), dt), LAMBDA a :
       Then(updateEnemies(Stage(a, "updateEnemies"), dt, jit, steal, hide),
            LAMBDA b :
       Then(updateProjectiles(Stage(b, "updateProjectiles"),
                              IF touch <= Len(b.en) THEN touch ELSE 0),
            LAMBDA c :
       Then(updateDefenses(Stage(c, "updateDefenses"), dt), LAMBDA d :
       Then(updateTimers(Stage(d, "updateTimers"), dt), LAMBDA e :
            checkGameOver(Stage(e, "checkGameOver")))))))

----------------------------------------------------------------------------
(* DefenseManager: placement                                               *)

Snap(v) == (v \div GRID_SIZE) * GRID_SIZE

\* new Defense(game, gridX, gridY, type); lastFireTime 0 is long ago.  The
\* special ability is not part of getSaveData, so a restored defense has
\* the constructor's values for it.
NewDefense(x, y, type) ==
  [x |-> x, y |-> y, type |-> type, level |-> 1,
   damage |-> DEFENSE_TYPES[type].damage,
   range |-> DEFENSE_TYPES[type].range,
   fireRate |-> DEFENSE_TYPES[type].fireRate,
   experience |-> 0, experienceToNextLevel |-> 100,
   boosted |-> 0, slowed |-> 0, emp |-> 0,
   specialAbilityActive |-> FALSE, specialAbilityDuration |-> 0,
   specialAbilityCooldown |-> 0,
   abilityAge |-> -1,       \* simulated time since the last activation of
                            \* the special ability, -1 when there was none
   waited |-> LongestInterval, isActive |-> TRUE]

\* DefenseManager.isValidPlacement(x, y, defenseType)
isValidPlacement(w, x, y) ==
  LET gridX == Snap(x)
      gridY == Snap(y)
      mine == [i \in 1..Len(w.dm.defenses) |-> w.df[w.dm.defenses[i]]]
  IN  /\ ~(gridX < 0 \/ gridX >= CANVAS_WIDTH \/ gridY < 0 \/ gridY >= CANVAS_HEIGHT)
      /\ ~\E i \in 1..Len(mine) : mine[i].x = gridX /\ mine[i].y = gridY
      /\ ~isOnPath(gridX, gridY)
      /\ ~\E i \in 1..Len(mine) :
            DistSq(gridX, gridY, mine[i].x, mine[i].y) < GRID_SIZE * GRID_SIZE

\* A placement check that looks at the price only
CanPlaceAffordOnly(w, x, y) ==
  canAfford(w, DEFENSE_TYPES[w.g.selectedDefenseType].cost)

\* The early returns of DefenseManager.tryPlaceDefense, in its order
CanPlace(w, x, y) ==
  /\ ~(w.dm.lastPlacementTime > 0)
  /\ canAfford(w, DEFENSE_TYPES[w.g.selectedDefenseType].cost)
  /\ isValidPlacement(w, x, y)

\* DefenseManager.tryPlaceDefense(x, y) past its early returns
PlaceDefense(w, x, y) ==
  LET defenseType == w.g.selectedDefenseType
      id == Len(w.df) + 1
      built == [w EXCEPT
                  !.df = Append(@, NewDefense(Snap(x), Snap(y), defenseType)),
                  !.dm.defenses = Append(@, id),
                  !.g.defenses = Append(@, id),
                  !.ev.placed = TRUE]
      spent == spendResources(built, DEFENSE_TYPES[defenseType].cost)
      cooled == [spent EXCEPT !.dm.lastPlacementTime = w.dm.placementCooldown]
  IN  checkAchievement(cooled, "defensesBuilt")

\* A placement that charges for a rejected request
tryPlaceDefenseCharging(w, x, y) ==
  IF CanPlace(w, x, y) THEN PlaceDefense(w, x, y)
  ELSE [w EXCEPT !.g.resources =
          SubRes(@, DEFENSE_TYPES[w.g.selectedDefenseType].cost)]

tryPlaceDefense(w, x, y) ==
  IF CanPlace(w, x, y) THEN PlaceDefense(w, x, y) ELSE w

\* Game.handleClick(x, y) -> DefenseManager.handleClick; the click points
\* of the model lie outside the defense panel
handleClick(w, x, y) ==
  IF w.g.state # "playing" THEN w ELSE tryPlaceDefense(w, x, y)

----------------------------------------------------------------------------
(* Defense: upgrades                                                       *)

RECURSIVE Pow(_, _)
Pow(b, n) == IF n = 0 THEN 1 ELSE b * Pow(b, n - 1)

\* Defense.canUpgrade
canUpgrade(d) == d.level < maxLevel

\* Defense.getUpgradeCost: floor(cost * 1.5^level), the bandwidth halved and
\* the anonymity times 0.3 before the floor (the doubles of the program
\* give the same integers for every kind and level)
getUpgradeCost(d) ==
  LET cost == DEFENSE_TYPES[d.type].cost
  IN  Res((cost.dharma * Pow(3, d.level)) \div Pow(2, d.level),
          (cost.bandwidth * Pow(3, d.level)) \div Pow(2, d.level + 1),
          (cost.anonymity * Pow(3, d.level + 1)) \div (Pow(2, d.level) * 10))

\* Defense.addExperience: the loop raises the level without touching the
\* stats
RECURSIVE LevelUps(_)
LevelUps(d) ==
  IF d.experience >= d.experienceToNextLevel /\ canUpgrade(d)
    THEN LevelUps([d EXCEPT
                     !.experience = @ - d.experienceToNextLevel,
                     !.experienceToNextLevel = (@ * 3) \div 2,
                     !.level = @ + 1])
    ELSE d

addExperience(d, amount) == LevelUps([d EXCEPT !.experience = @ + amount])

\* Defense.upgrade
upgrade(d) ==
  IF ~canUpgrade(d) THEN d
  ELSE LET config == DEFENSE_TYPES[d.type]
           newLevel == d.level + 1
       IN  addExperience(
             [d EXCEPT
                !.level = newLevel,
                !.damage = (config.damage * (10 + 2 * newLevel)) \div 10,
                !.range = (config.range * (10 + newLevel)) \div 10,
                !.fireRate = Max(200, (config.fireRate * (10 - newLevel)) \div 10)],
             50)

\* an upgrade that is made whether or not the resources cover it
upgradeDefenseOnCredit(w, id) ==
  IF canUpgrade(w.df[id])
    THEN [spendResources(w, getUpgradeCost(w.df[id])) EXCEPT
            !.df[id] = upgrade(@), !.ev.upgraded = TRUE]
    ELSE w

\* an upgrade that is not paid for
upgradeDefenseUnpaid(w, id) ==
  IF canUpgrade(w.df[id]) /\ canAfford(w, getUpgradeCost(w.df[id]))
    THEN [w EXCEPT !.df[id] = upgrade(@), !.ev.upgraded = TRUE]
    ELSE w

\* DefenseManager.upgradeDefense(defense), the defense with the given id
upgradeDefense(w, id) ==
  IF canUpgrade(w.df[id])
    THEN LET upgradeCost == getUpgradeCost(w.df[id])
         IN  IF canAfford(w, upgradeCost)
               THEN [spendResources(w, upgradeCost) EXCEPT
                       !.df[id] = upgrade(@), !.ev.upgraded = TRUE]
               ELSE w
    ELSE w

\* DefenseManager.applyDefenseBuff(defenseType, buffType, duration) with
\* buffType 'boosted'
applyDefenseBuff(w, defenseType, duration) ==
  [w EXCEPT !.df = [j \in 1..Len(w.df) |->
     IF w.df[j].type = defenseType
        /\ \E i \in 1..Len(w.dm.defenses) : w.dm.defenses[i] = j
       THEN [w.df[j] EXCEPT !.boosted = duration]
       ELSE w.df[j]]]

\* Defense.applyDebuff(debuffType, duration) on the defense with the given
\* id, for the kinds 'slowed' and 'emp': Map.set replaces the entry
applyDebuff(w, id, debuffType, duration) ==
  IF debuffType = "emp" THEN [w EXCEPT !.df[id].emp = duration]
  ELSE [w EXCEPT !.df[id].slowed = duration]

\* Boss.performEMPBlast of the boss e: the debuff 'emp' for 3000 ms on
\* every defense whose centre is within 200 of the boss
performEMPBlast(w, e) ==
  LET near(j) ==
        /\ \E i \in 1..Len(w.g.defenses) : w.g.defenses[i] = j
        /\ DistSq(e.x, SubPx(PathY), SubPx(w.df[j].x + GRID_SIZE \div 2),
                  SubPx(w.df[j].y + GRID_SIZE \div 2))
              <= SubPx(200) * SubPx(200)
  IN  [w EXCEPT !.df = [j \in 1..Len(w.df) |->
                          IF near(j) THEN applyDebuff(w, j, "emp", 3000).df[j]
                          ELSE w.df[j]]]

----------------------------------------------------------------------------
(* SaveSystem: loading                                                     *)

\* SaveSystem.isVersionCompatible: the parts before the first dot
isVersionCompatible(version) == saveVersion[1] = version[1]

\* Defense.loadSaveData on the defense the constructor made.  The ranges
\* and fire rates of CONFIG make the products whole; the doubles of the
\* program differ from them in their last bits.
LoadedDefense(d) ==
  LET config == DEFENSE_TYPES[d.type]
  IN  [NewDefense(d.x, d.y, d.type) EXCEPT
         !.level = d.level,
         !.experience = d.experience,
         !.experienceToNextLevel = d.experienceToNextLevel,
         !.boosted = d.boosted,
         !.slowed = d.slowed,
         !.emp = d.emp,
         !.damage = (config.damage * (10 + 2 * d.level)) \div 10,
         !.range = (config.range * (10 + d.level)) \div 10,
         !.fireRate = Max(200, (config.fireRate * (10 - d.level)) \div 10)]

\* SaveSystem.createDefenseFromSaveData.  req: `require` is defined and
\* resolves './defense.js' (a bundled build); in a browser that loads the
\* ES modules as they are it is not defined and the call throws.  An
\* unknown type throws in Defense's constructor.  The catch returns null.
createDefenseFromSaveData(d, req) ==
  IF req /\ d.type \in DefenseKinds THEN Some(LoadedDefense(d)) ELSE None

\* SaveSystem.createEnemyFromSaveData: Enemy's constructor, then
\* Enemy.loadSaveData, whose updateTarget() moves the restored pathIndex
\* on by one.  A boss type throws in Enemy's constructor, which reads
\* CONFIG.ENEMY_TYPES[type].health.
\* A boss restored in its first phase
BossLoadFresh(d) ==
  updateTarget([NewBoss(d.type, 4 * BOSS_TYPES[d.type].health) EXCEPT
                  !.x = d.x,
                  !.health = d.health,
                  !.maxHealth = d.maxHealth,
                  !.pathIndex = d.pathIndex])

\* new Boss(game, x, y, type) followed by Boss.loadSaveData(saveData):
\* Enemy.loadSaveData, which ends with updateTarget(), then
\* currentPhase = saveData.currentPhase || 1 and the shield.  Speed, damage
\* and the ability timers are those of the constructor.
BossLoadSaveData(d) ==
  [updateTarget([NewBoss(d.type, 4 * BOSS_TYPES[d.type].health) EXCEPT
                   !.x = d.x,
                   !.health = d.health,
                   !.maxHealth = d.maxHealth,
                   !.pathIndex = d.pathIndex])
     EXCEPT !.currentPhase = IF d.currentPhase = 0 THEN 1 ELSE d.currentPhase,
            !.shieldActive = d.shieldActive,
            !.shieldHealth = d.shieldHealth,
            !.stealthed = d.stealthed]

createEnemyFromSaveData(d, req) ==
  IF req /\ d.type \in DOMAIN ENEMY_TYPES
    THEN Some(updateTarget([NewEnemy(d.type, d.health) EXCEPT
                              !.x = d.x,
                              !.maxHealth = d.maxHealth,
                              !.pathIndex = d.pathIndex,
                              !.stealthed = d.stealthed]))
    ELSE None

\* the objects made of a list of save data, the nulls left out
Created(made) ==
  LET on(k) == made[k] # None
      kept == SelectSeq([k \in 1..Len(made) |-> k], on)
  IN  [k \in 1..Len(kept) |-> The(made[kept[k]])]

\* SaveSystem.loadGameData.  gameData.levelData.waveInProgress is read
\* before levelData is tested: without levelData the read throws after the
\* fields before it were written, and the catch returns false.
loadGameData(w, gameData, req) ==
  LET newDefenses == Created([k \in 1..Len(gameData.defenses) |->
                        createDefenseFromSaveData(gameData.defenses[k], req)])
      cleared == [w EXCEPT
                    !.g.state = gameData.state,
                    !.g.resources = The(gameData.resources),
                    !.g.lives = gameData.lives,
                    !.g.wave = gameData.wave,
                    !.g.score = gameData.score,
                    !.en = <<>>,
                    !.pr = <<>>,
                    !.df = @ \o newDefenses,
                    !.g.defenses = [k \in 1..Len(newDefenses) |->
                                      Len(w.df) + k]]
  IN  IF gameData.levelData = None THEN cleared
      ELSE LET levelData == The(gameData.levelData)
               newEnemies ==
                 IF levelData.waveInProgress
                   THEN Created([k \in 1..Len(gameData.enemies) |->
                          createEnemyFromSaveData(gameData.enemies[k], req)])
                   ELSE <<>>
           IN  [cleared EXCEPT
                  !.en = newEnemies,
                  !.lv.currentWave = levelData.currentWave,
                  !.lv.waveInProgress = levelData.waveInProgress,
                  !.lv.waveTimer = levelData.waveTimer,
                  !.lv.idle = -1,
                  !.ev.loaded = TRUE]

\* SaveSystem.load(slot): an incompatible version is warned about and the
\* document is loaded all the same
SaveSystemLoad(w, slot, req) ==
  LET saveData == w.st[slot]
  IN  IF saveData = None \/ ~validateSaveData(saveData) THEN w
      ELSE loadGameData(
             [w EXCEPT !.ev.warned =
                         ~isVersionCompatible(The(saveData).version)],
             The(The(saveData).gameData), req)

\* what a property read off the boolean that SaveSystem.load returns is
Undefined == "undefined"

\* Game.loadGame: saveData is the boolean of SaveSystem.load
loadGame(w, req) ==
  Then(SaveSystemLoad(w, currentSlot, req), LAMBDA l :
    IF l.ev.loaded
      THEN [l EXCEPT !.g.resources = Undefined, !.g.lives = Undefined,
                     !.g.wave = Undefined, !.g.score = Undefined]
      ELSE l)

----------------------------------------------------------------------------
(* Game: commands                                                          *)

\* Game.startNextWave
startNextWave(w) ==
  Then([w EXCEPT !.g.wave = @ + 1], LAMBDA n :
    [startWave(n, n.g.wave) EXCEPT !.g.waveTimer = WAVE_DELAY])

\* Game.newGame
newGame(w) ==
  LET fresh == [w EXCEPT
                  !.g.resources = Res(INITIAL_DHARMA, INITIAL_BANDWIDTH,
                                      INITIAL_ANONYMITY),
                  !.g.lives = INITIAL_LIVES,
                  !.g.wave = 0,
                  !.g.score = 0,
                  !.en = <<>>,
                  !.pr = <<>>,
                  !.g.defenses = <<>>]
      playing == [LevelReset(fresh) EXCEPT !.g.state = "playing"]
  IN  Then(playing, startNextWave)

\* Game.pause / Game.resume
pause(w) == IF w.g.state = "playing" THEN [w EXCEPT !.g.state = "paused"] ELSE w
resume(w) == IF w.g.state = "paused" THEN [w EXCEPT !.g.state = "playing"] ELSE w

\* Game.onKeyDown, keys 'n' / 'N'
onKeyDownN(w) ==
  IF w.g.state = "playing" /\ w.g.waveTimer > 0
    THEN startNextWave([w EXCEPT !.g.waveTimer = 0])
    ELSE w

\* Game.onKeyDown, key ' '
onKeyDownSpace(w) ==
  IF w.g.state = "playing" THEN pause(w)
  ELSE IF w.g.state = "paused" THEN resume(w) ELSE w

\* Game.onKeyDown, keys '1'..'6' -> DefenseManager.selectDefenseType
selectDefenseType(w, type) ==
  IF type \in DOMAIN DEFENSE_TYPES
    THEN [w EXCEPT !.dm.selectedDefenseType = type,
                   !.g.selectedDefenseType = type]
    ELSE w

\* ScreenManager.continueGame.  Nothing in the game writes slot 0 (see
\* saveGame), so Game.loadGame finds no save there and changes nothing.
continueGame(w, req) == [loadGame(w, req) EXCEPT !.g.state = "playing"]

\* ScreenManager.returnToMenu
returnToMenu(w) == [w EXCEPT !.g.state = "menu"]

----------------------------------------------------------------------------
(* The state machine                                                       *)

\* the objects as Game.init and the constructors leave them
Constructed(r) ==
  [g |-> [state |-> "loading",
          resources |-> Res(INITIAL_DHARMA, INITIAL_BANDWIDTH,
                            INITIAL_ANONYMITY),
          lives |-> INITIAL_LIVES, wave |-> 0, score |-> 0,
          waveTimer |-> 0, isGameOver |-> FALSE, isVictory |-> FALSE,
          defenses |-> <<>>, selectedDefenseType |-> "firewall",
          achievementChecks |-> 0,
          resourceBoost |-> 0],    \* no constructor assigns it: 0 stands
                                   \* for the property that is not there
   en |-> <<>>,
   pr |-> <<>>,
   df |-> <<>>,
   dm |-> [defenses |-> <<>>, selectedDefenseType |-> "firewall",
           lastPlacementTime |-> 0, placementCooldown |-> 500],
   lv |-> [currentWave |-> 0, waveInProgress |-> FALSE, waveTimer |-> 0,
           enemiesSpawned |-> 0, enemiesToSpawn |-> 0,
           waveConfigs |-> generateWaveConfigs(r),
           currentWaveConfig |-> NoWaveConfig,
           ownSpawned |-> 0, bossCalls |-> 0, bossSpawned |-> 0,
           idle |-> -1],
   tm |-> <<>>,
   st |-> EmptyStorage,
   ev |-> Event("init")]

Init ==
  /\ \E r \in RandDraws :
       \E w \in {Constructed(r)} :
          /\ game = w.g
          /\ enemies = w.en
          /\ projectiles = w.pr
          /\ defenses = w.df
          /\ defenseManager = w.dm
          /\ level = w.lv
          /\ timers = w.tm
          /\ storage = w.st
          /\ ev = w.ev
  /\ used = [commands |-> 0, ticks |-> 0]

\* one more command of the player within the budget
Command(max) ==
  /\ used.commands < max
  /\ used' = [used EXCEPT !.commands = @ + 1]

\* Game.start
Start ==
  /\ game.state = "loading"
  /\ Install([Begin(World, "start") EXCEPT !.g.state = "menu"])
  /\ UNCHANGED used

\* "New Game" / "Restart" on the menu, pause, game-over and victory screens
NewGameWithin(max) ==
  /\ game.state \in {"menu", "paused", "game_over", "victory"}
  /\ \E w \in {Begin(World, "newGame")} : Install(newGame(w))
  /\ Command(max)

NewGame == NewGameWithin(MaxCommands)

\* "Continue" on the main menu
ContinueGameWithin(max) ==
  /\ game.state = "menu"
  /\ \E req \in RequireDraws :
       Install(continueGame(Begin(World, "continueGame"), req))
  /\ Command(max)

ContinueGame == ContinueGameWithin(MaxCommands)

\* "Main Menu" on the pause, game-over and victory screens
ReturnToMenuWithin(max) ==
  /\ game.state \in {"paused", "game_over", "victory"}
  /\ Install(returnToMenu(Begin(World, "returnToMenu")))
  /\ Command(max)

ReturnToMenu == ReturnToMenuWithin(MaxCommands)

\* the space bar
PauseKeyWithin(max) ==
  /\ game.state \in {"playing", "paused"}
  /\ Install(onKeyDownSpace(Begin(World, "pauseKey")))
  /\ Command(max)

PauseKey == PauseKeyWithin(MaxCommands)

\* the N key
NextWaveKeyWithin(max) ==
  /\ game.state = "playing"
  /\ \E w \in {Begin(World, "nextWaveKey")} : Install(onKeyDownN(w))
  /\ Command(max)

NextWaveKey == NextWaveKeyWithin(MaxCommands)

\* a number key
SelectKeyWithin(max) ==
  /\ game.state = "playing"
  /\ \E type \in SelectKinds :
       /\ type # game.selectedDefenseType
       /\ Install(selectDefenseType(Begin(World, "selectKey"), type))
  /\ Command(max)

SelectKey == SelectKeyWithin(MaxCommands)

\* a mouse click on the canvas
ClickAt(max, points) ==
  /\ game.state = "playing"
  /\ \E p \in points :
       \E w \in {[Begin(World, "click") EXCEPT !.ev.click = p]} :
          Install(handleClick(w, p[1], p[2]))
  /\ Command(max)

ClickWithin(max) == ClickAt(max, ClickPoints)

Click == ClickWithin(MaxCommands)

\* The pending callback that is due first (the earliest queued of those)
Due == {k \in 1..Len(timers) : timers[k].rem <= 0}
FirstDue ==
  CHOOSE k \in Due : \A j \in Due :
     timers[k].rem < timers[j].rem \/ (timers[k].rem = timers[j].rem /\ k <= j)

RunTimer(w, t) ==
  IF t.kind = "spawn" THEN spawnEnemy(w, t.type, t.health, t.cur)
  ELSE IF t.kind = "boost" THEN [w EXCEPT !.g.resourceBoost = 1]
  ELSE spawnEnemyGroup(w, t.gi, t.cur)

\* a setTimeout callback of Level.spawnEnemyGroup or of
\* Defense.activateResourceBoost runs
TimerFire ==
  /\ Due # {}
  /\ \E k \in {FirstDue} :
       \E w \in {[Begin(World, "timer") EXCEPT !.tm = RemoveAt(@, k)]} :
          Install(RunTimer(w, timers[k]))
  /\ UNCHANGED used

\* Wall-clock time passes for the callbacks and the fire cooldowns
Elapse(w, dt) ==
  [w EXCEPT
     !.tm = [k \in 1..Len(w.tm) |-> [w.tm[k] EXCEPT !.rem = @ - dt]],
     !.df = [k \in 1..Len(w.df) |-> [w.df[k] EXCEPT !.waited =
                                         IF @ + dt > LongestInterval
                                           THEN LongestInterval
                                           ELSE @ + dt]]]

\* The simulated time since each activation: it advances by the deltaTime
\* of every frame whose Game.update got past its guard, and stops counting
\* at AbilityHorizon.
AbilityHorizon == 30000

Simulated(w, dt) ==
  IF ~w.ev.ran THEN w
  ELSE [w EXCEPT !.df = [k \in 1..Len(w.df) |->
          [w.df[k] EXCEPT !.abilityAge =
             IF @ < 0 THEN @
             ELSE IF @ + dt > AbilityHorizon THEN AbilityHorizon
             ELSE @ + dt]]]

\* Game.gameLoop: one animation frame.  Only frames that change something
\* count towards the horizon.
Frame(dt, jit, touch, steal, hide) ==
  Then(GameUpdate(Begin(World, "tick"), dt, jit, touch, steal, hide),
       LAMBDA w : Elapse(Simulated(w, dt), dt))

\* steal is the draw Math.random() < 0.01 of a titan on the field, hide
\* that of a corporateSaboteur
TickWithin(max, deltas) ==
  /\ game.state # "loading"
  /\ Due = {}
  /\ used.ticks < max
  /\ \E dt \in deltas, jit \in ErraticDraws, touch \in 0..Len(enemies),
        steal \in {d \in MarketDraws :
                     d => \E i \in 1..Len(enemies) :
                             enemies[i].type = "megaCorpTitan"},
        hide \in {d \in StealthDraws :
                    d => \E i \in 1..Len(enemies) :
                            enemies[i].type = "corporateSaboteur"} :
       /\ (touch > 0 => projectiles # <<>>)
       /\ \E w \in {Frame(dt, jit, touch, steal, hide)} :
            /\ Install(w)
            /\ used' = [used EXCEPT !.ticks =
                 IF [w EXCEPT !.ev = ev] = World THEN @ ELSE @ + 1]

Tick == TickWithin(MaxTicks, Deltas)

Next ==
  \/ Start
  \/ NewGame
  \/ ContinueGame
  \/ ReturnToMenu
  \/ PauseKey
  \/ NextWaveKey
  \/ SelectKey
  \/ Click
  \/ TimerFire
  \/ Tick

Spec == Init /\ [][Next]_vars

\* The player who only starts games and calls for the next wave at once,
\* before the next frame: the runs in which waves pile up.
RushNewGame == NewGameWithin(RushCommands)
RushNextWaveKey ==
  /\ game.waveTimer = WAVE_DELAY
  /\ NextWaveKeyWithin(RushCommands)
RushTick == TickWithin(RushTicks, Deltas)

RushNext ==
  \/ Start
  \/ RushNewGame
  \/ RushNextWaveKey
  \/ TimerFire
  \/ RushTick

SpecRush == Init /\ [][RushNext]_vars

\* The player who builds: every command but the N key, over the first
\* frames of a game.
BuildNewGame == NewGameWithin(BuildCommands)
BuildContinueGame == ContinueGameWithin(BuildCommands)
BuildReturnToMenu == ReturnToMenuWithin(BuildCommands)
BuildPauseKey == PauseKeyWithin(BuildCommands)
BuildSelectKey == SelectKeyWithin(BuildCommands)
BuildClick == ClickWithin(BuildCommands)
BuildTick == TickWithin(BuildTicks, Deltas)

BuildNext ==
  \/ Start
  \/ BuildNewGame
  \/ BuildContinueGame
  \/ BuildReturnToMenu
  \/ BuildPauseKey
  \/ BuildSelectKey
  \/ BuildClick
  \/ TimerFire
  \/ BuildTick

SpecBuild == Init /\ [][BuildNext]_vars

\* The Boss class under the frames of the game.  A boss wave is in
\* progress and its boss has just been put on the field as the boss branch
\* of Level.spawnEnemy builds it, alone or with one enemy of the swarm; it
\* walks the path while hits land on it through Boss.takeDamage.  (In the
\* assembled game that branch is not reached, see C8.)
InitBoss ==
  /\ \E wave \in BossWaves, swarm \in BOOLEAN, r \in RandDraws :
       \E plans \in {generateWaveConfigs(r)} :
          /\ game = [state |-> "playing",
                     resources |-> Res(INITIAL_DHARMA, INITIAL_BANDWIDTH,
                                       INITIAL_ANONYMITY),
                     lives |-> INITIAL_LIVES, wave |-> wave, score |-> 0,
                     waveTimer |-> 0, isGameOver |-> FALSE,
                     isVictory |-> FALSE, defenses |-> <<>>,
                     selectedDefenseType |-> "firewall",
                     achievementChecks |-> 0,
                     resourceBoost |-> 0]
          /\ enemies =
               <<NewBoss(plans[wave].enemies[1].type,
                    ScaledHealth(
                      BOSS_TYPES[plans[wave].enemies[1].type].health,
                      plans[wave].enemies[1].health))>>
               \o (IF swarm
                     THEN <<NewEnemy(plans[wave].enemies[2].type,
                              ScaledHealth(
                                ENEMY_TYPES[plans[wave].enemies[2].type].health,
                                plans[wave].enemies[2].health))>>
                     ELSE <<>>)
          /\ level = [currentWave |-> wave, waveInProgress |-> TRUE,
                      waveTimer |-> 0,
                      enemiesSpawned |-> 1 + plans[wave].enemies[2].count,
                      enemiesToSpawn |-> 1 + plans[wave].enemies[2].count,
                      waveConfigs |-> plans,
                      currentWaveConfig |-> plans[wave],
                      ownSpawned |-> 1 + plans[wave].enemies[2].count,
                      bossCalls |-> 1, bossSpawned |-> 1,
                      idle |-> -1]
  /\ projectiles = <<>>
  /\ defenses = <<>>
  /\ defenseManager = [defenses |-> <<>>, selectedDefenseType |-> "firewall",
                       lastPlacementTime |-> 0, placementCooldown |-> 500]
  /\ timers = <<>>
  /\ storage = EmptyStorage
  /\ ev = Event("init")
  /\ used = [commands |-> 0, ticks |-> 0]

\* a projectile's hit on a boss: target.takeDamage(damage)
BossHitWithin(max, hits) ==
  /\ game.state = "playing"
  /\ \E i \in 1..Len(enemies), amount \in hits :
       /\ enemies[i].boss
       /\ ~enemies[i].isDead
       /\ enemies' = [enemies EXCEPT ![i] = BossTakeDamage(@, amount)]
       /\ ev' = [Event("hit") EXCEPT !.target = i, !.amount = amount]
  /\ Command(max)
  /\ UNCHANGED <<game, projectiles, defenses, defenseManager, level, timers,
                 storage>>

BossHit == BossHitWithin(MaxBossHits, BossHits)

\* a frame in which no boss on the field spawns minions or blasts
AbilityDue ==
  \E i \in 1..Len(enemies) :
     /\ enemies[i].type = "raidTeam"
     /\ ~enemies[i].isDead
     /\ (enemies[i].minionSpawnTimer <= 0 \/ enemies[i].empBlastTimer <= 0)

BossTick ==
  /\ ~AbilityDue
  /\ TickWithin(BossTicks, BossDeltas)

BossNext ==
  \/ BossHit
  \/ BossTick

SpecBoss == InitBoss /\ [][BossNext]_vars

----------------------------------------------------------------------------
(* Properties                                                              *)

\* C1: lives never increases from one frame to the next, and once lives is
\* zero or less the game is in GAME_OVER in that state and in every later
\* one (the rush player pauses nothing and loads nothing).
C1_LivesAndGameOver ==
  [][ /\ (ev'.op = "tick" => game'.lives <= game.lives)
      /\ (game'.lives <= 0 => game'.state = "game_over") ]_vars

\* C2: in every frame the rewards credited are exactly the rewards of the
\* enemies killed by damage that the frame pruned.
C2_CreditedIsKilled == ev.credited = ev.killed

\* C3: an enemy removed for reaching the end of the path credits no reward
\* and no score.
C3_ReachedEndCreditsNothing ==
  ev.reachedCredit = Res(0, 0, 0) /\ ev.reachedScore = 0

\* C7: every wave start finds no wave in progress and starts the wave after
\* the current one, at most wave 20.
C7_StartOnlyWhenIdle ==
  \A i \in 1..Len(ev.starts) :
     /\ ~ev.starts[i].wasInProgress
     /\ ev.starts[i].wave = ev.starts[i].previous + 1
     /\ ev.starts[i].wave <= maxWaves

\* C8: on a boss wave, once the callback that spawns the boss group has run,
\* exactly one boss has been put on the field.
C8_OneBossOnBossWave ==
  /\ level.bossSpawned <= 1
  /\ (level.currentWaveConfig.bossWave /\ level.bossCalls > 0
        => level.bossSpawned = 1)

\* C9: a wave is marked complete only when every enemy of its plan has been
\* emitted, none of its callbacks is pending, and the field is empty.
C9_CompleteOnlyWhenExhausted ==
  \A i \in 1..Len(ev.completions) :
     /\ ev.completions[i].ownSpawned = ev.completions[i].planned
     /\ ev.completions[i].pending = 0
     /\ ev.completions[i].alive = 0

\* The grid cell of a point, and the live defenses standing on a cell
CellOf(p) == <<Snap(p[1]), Snap(p[2])>>
LiveAt(cell) ==
  {i \in 1..Len(game.defenses) :
     /\ defenses[game.defenses[i]].x = cell[1]
     /\ defenses[game.defenses[i]].y = cell[2]}

C6_RejectedChangesNothing ==
  [][ ev'.op = "click" =>
        /\ ( \/ LiveAt(CellOf(ev'.click)) # {}
             \/ isOnPath(CellOf(ev'.click)[1], CellOf(ev'.click)[2])
             \/ ~canAfford(World, DEFENSE_TYPES[game.selectedDefenseType].cost)
             => ~ev'.placed )
        /\ ( ~ev'.placed =>
               /\ game'.resources = game.resources
               /\ game'.defenses = game.defenses
               /\ defenses' = defenses
               /\ defenseManager' = defenseManager ) ]_vars

\* C6 happens: a click for a defense the player cannot pay was turned down.
C6_Witness ==
  /\ ev.op = "click"
  /\ ~ev.placed
  /\ ~canAfford(World, DEFENSE_TYPES[game.selectedDefenseType].cost)
  /\ LiveAt(CellOf(ev.click)) = {}
  /\ ~isOnPath(CellOf(ev.click)[1], CellOf(ev.click)[2])

\* The bonus the specification promises for wave n
BonusOf(n) == Res(50 + 10 * n, (50 + 10 * n) \div 2, (3 * (50 + 10 * n)) \div 10)

\* C10: a frame completes at most one wave, the wave in progress; it then
\* credits, on top of the rewards of the frame, the bonus of that wave once:
\* 50 + 10 w dharma, half of it (floored) bandwidth, three tenths of it
\* (floored) anonymity.  A frame that completes no wave credits no bonus.
C10_WaveBonusOnce ==
  [][ ev'.op = "tick" =>
        /\ Len(ev'.completions) <= 1
        /\ ( ev'.completions # <<>> =>
               /\ level.waveInProgress
               /\ ~level'.waveInProgress
               /\ ev'.completions[1].wave = level.currentWave )
        /\ game'.resources =
             AddRes(AddRes(game.resources, ev'.credited),
                    IF ev'.completions # <<>>
                      THEN BonusOf(ev'.completions[1].wave)
                      ELSE Res(0, 0, 0)) ]_vars

\* C10 happens: wave 1 has just been completed and its bonus of
\* (60, 30, 18) is in the resources.
C10_Witness ==
  /\ ev.op = "tick"
  /\ Len(ev.completions) = 1
  /\ ev.completions[1].wave = 1
  /\ \E paid \in {AddRes(ev.credited, Res(60, 30, 18))} :
       /\ game.resources.dharma >= paid.dharma
       /\ game.resources.bandwidth >= paid.bandwidth
       /\ game.resources.anonymity >= paid.anonymity

\* The life-loss amount of a boss after k phase changes: 5, each change
\* multiplying it by 1.3 and flooring
RECURSIVE DamageAfter(_)
DamageAfter(k) == IF k = 0 THEN 5 ELSE (13 * DamageAfter(k - 1)) \div 10

----------------------------------------------------------------------------
(* The last waves                                                          *)

\* The player of SpecRush who has called for wave after wave before the
\* first frame: LatePresses presses of N after "New Game".
LatePresses == {18, 19}
LateCommands == 2
LateTicks == 4

RECURSIVE Pressed(_, _)
Pressed(w, k) ==
  IF k = 0 THEN w
  ELSE Then(Pressed(w, k - 1), LAMBDA v : onKeyDownN(Begin(v, "nextWaveKey")))

InitLate ==
  /\ \E r \in RandDraws, k \in LatePresses :
       \E w \in {Pressed(newGame(Begin(Constructed(r), "newGame")), k)} :
          /\ game = w.g
          /\ enemies = w.en
          /\ projectiles = w.pr
          /\ defenses = w.df
          /\ defenseManager = w.dm
          /\ level = w.lv
          /\ timers = w.tm
          /\ storage = w.st
          /\ ev = w.ev
  /\ used = [commands |-> 0, ticks |-> 0]

LateNextWaveKey == NextWaveKeyWithin(LateCommands)
LateTick == TickWithin(LateTicks, Deltas)

LateNext ==
  \/ LateNextWaveKey
  \/ TimerFire
  \/ LateTick

SpecLate == InitLate /\ [][LateNext]_vars

----------------------------------------------------------------------------
(* The save system                                                         *)

SaveCommands == 4
SaveTicks == 3

\* A save document as another release of the game, or an import, may have
\* left it in slot 0.  withResources and withLevel: the document has its
\* resources and its levelData.
ForeignDoc(version, type, withResources, withLevel) ==
  [version |-> version, timestamp |-> 1,
   gameData |-> Some(
     [state |-> "playing",
      resources |-> IF withResources THEN Some(Res(40, 30, 20)) ELSE None,
      lives |-> 7, wave |-> 3, score |-> 120,
      defenses |-> << [x |-> 80, y |-> 400, type |-> type, level |-> 2,
                       experience |-> 0, experienceToNextLevel |-> 100,
                       boosted |-> 0, slowed |-> 0, emp |-> 0] >>,
      enemies |-> << [x |-> SubPx(generatePath[2].x), type |-> "scriptKiddie",
                      health |-> 80, maxHealth |-> 80, pathIndex |-> 1,
                      currentPhase |-> 0, shieldActive |-> FALSE,
                      shieldHealth |-> 0, stealthed |-> 0] >>,
      levelData |-> IF withLevel
                      THEN Some([currentWave |-> 3, waveInProgress |-> TRUE,
                                 waveTimer |-> 0])
                      ELSE None])]

ForeignDocs ==
  {None,
   Some(ForeignDoc(<<1, 0, 0>>, "firewall", TRUE, TRUE)),
   Some(ForeignDoc(<<2, 0, 0>>, "firewall", TRUE, TRUE)),
   Some(ForeignDoc(<<1, 0, 0>>, "laserTurret", TRUE, TRUE)),
   Some(ForeignDoc(<<1, 0, 0>>, "firewall", FALSE, TRUE)),
   Some(ForeignDoc(<<1, 0, 0>>, "firewall", TRUE, FALSE))}

InitSave ==
  /\ \E r \in RandDraws, doc \in ForeignDocs :
       \E w \in {Constructed(r)} :
          /\ game = w.g
          /\ enemies = w.en
          /\ projectiles = w.pr
          /\ defenses = w.df
          /\ defenseManager = w.dm
          /\ level = w.lv
          /\ timers = w.tm
          /\ storage = [w.st EXCEPT ![currentSlot] = doc]
          /\ ev = w.ev
  /\ used = [commands |-> 0, ticks |-> 0]

\* SaveSystem.save() with its default slot.  No code of the game makes
\* this call: Game.saveGame passes an object, and autoSave has no caller.
SaveCall ==
  /\ game.state # "loading"
  /\ Install(SaveSystemSave(Begin(World, "save"), currentSlot))
  /\ Command(SaveCommands)

\* the setInterval callback of Game.startAutoSave
AutoSave ==
  /\ game.state = "playing"
  /\ Install(saveGame(Begin(World, "autosave")))
  /\ Command(SaveCommands)

\* SaveSystem.load() with its default slot
LoadCall ==
  /\ game.state # "loading"
  /\ \E req \in RequireDraws :
       Install(SaveSystemLoad(Begin(World, "load"), currentSlot, req))
  /\ Command(SaveCommands)

SaveNewGame == NewGameWithin(SaveCommands)
SaveClick == ClickWithin(SaveCommands)
SaveTick == TickWithin(SaveTicks, Deltas)

SaveNext ==
  \/ Start
  \/ SaveNewGame
  \/ SaveClick
  \/ SaveCall
  \/ AutoSave
  \/ LoadCall
  \/ TimerFire
  \/ SaveTick

SpecSave == InitSave /\ [][SaveNext]_vars

----------------------------------------------------------------------------
(* Upgrades and buffs                                                      *)

UpgradeCommands == 4
UpgradeTicks == 3
BuffDurations == {400, 1000}

\* What a game without defenses holds after its first and after its third
\* wave: the initial amounts, the rewards of the enemies and the bonuses.
Purses == {Res(175, 86, 96), Res(445, 217, 173)}

\* A game just begun, a purse, and one defense of any kind placed by
\* DefenseManager.tryPlaceDefense on the cell of the point (50, 450)
InitUpgrade ==
  /\ \E r \in RandDraws, kind \in DefenseKinds, purse \in Purses :
       \E w \in {tryPlaceDefense(
                   [newGame(Begin(Constructed(r), "newGame")) EXCEPT
                      !.g.resources = purse,
                      !.g.selectedDefenseType = kind,
                      !.dm.selectedDefenseType = kind], 50, 450)} :
          /\ game = w.g
          /\ enemies = w.en
          /\ projectiles = w.pr
          /\ defenses = w.df
          /\ defenseManager = w.dm
          /\ level = w.lv
          /\ timers = w.tm
          /\ storage = w.st
          /\ ev = w.ev
  /\ used = [commands |-> 0, ticks |-> 0]

\* DefenseManager.upgradeDefense for one of the manager's defenses.  The
\* three calls of this section have no caller in the game's own code.
UpgradeCall ==
  /\ \E i \in 1..Len(defenseManager.defenses) :
       \E w \in {[Begin(World, "upgrade") EXCEPT
                    !.ev.target = defenseManager.defenses[i]]} :
          Install(upgradeDefense(w, defenseManager.defenses[i]))
  /\ Command(UpgradeCommands)

BoostCall ==
  /\ \E i \in 1..Len(defenseManager.defenses), duration \in BuffDurations :
       \E w \in {[Begin(World, "boost") EXCEPT
                    !.ev.target = defenseManager.defenses[i],
                    !.ev.duration = duration]} :
          Install(applyDefenseBuff(
                    w, defenses[defenseManager.defenses[i]].type, duration))
  /\ Command(UpgradeCommands)

SlowCall ==
  /\ \E i \in 1..Len(defenseManager.defenses), duration \in BuffDurations :
       \E w \in {[Begin(World, "slow") EXCEPT
                    !.ev.target = defenseManager.defenses[i],
                    !.ev.duration = duration]} :
          Install(applyDebuff(w, defenseManager.defenses[i], "slowed",
                              duration))
  /\ Command(UpgradeCommands)

UpgradeTick == TickWithin(UpgradeTicks, Deltas)

UpgradeNext ==
  \/ UpgradeCall
  \/ BoostCall
  \/ SlowCall
  \/ TimerFire
  \/ UpgradeTick

SpecUpgrade == InitUpgrade /\ [][UpgradeNext]_vars

----------------------------------------------------------------------------
(* The resources under every operation that moves them                     *)

LedgerCommands == 3
LedgerTicks == 4

\* a hit as the defenses deal them, and one that ends any boss
LedgerHits == {250, 4000}

LedgerHit == BossHitWithin(LedgerCommands, LedgerHits)
LedgerSelectKey == SelectKeyWithin(LedgerCommands)
LedgerClick == ClickWithin(LedgerCommands)

LedgerUpgrade ==
  /\ game.state = "playing"
  /\ \E i \in 1..Len(defenseManager.defenses) :
       \E w \in {[Begin(World, "upgrade") EXCEPT
                    !.ev.target = defenseManager.defenses[i]]} :
          Install(upgradeDefense(w, defenseManager.defenses[i]))
  /\ Command(LedgerCommands)

LedgerTick ==
  /\ ~AbilityDue
  /\ TickWithin(LedgerTicks, BossDeltas)

\* A boss wave under way (the theft of a titan, the reward of a boss, the
\* bonus of the wave), with placements and upgrades in between
LedgerNext ==
  \/ LedgerHit
  \/ LedgerSelectKey
  \/ LedgerClick
  \/ LedgerUpgrade
  \/ LedgerTick

SpecLedger == InitBoss /\ [][LedgerNext]_vars

----------------------------------------------------------------------------
(* A boss under damage, frames and its own save and load                   *)

BossSaveCommands == 3
BossSaveTicks == 5

BossSaveHit == BossHitWithin(BossSaveCommands, BossHits)

\* Boss.getSaveData and Boss.loadSaveData on a boss built anew, as
\* SaveSystem.createEnemyFromSaveData is written to do
BossReload ==
  /\ game.state = "playing"
  /\ \E i \in 1..Len(enemies) :
       /\ enemies[i].boss
       /\ ~enemies[i].isDead
       /\ enemies' = [enemies EXCEPT
                        ![i] = BossLoadSaveData(EnemySaveData(@))]
  /\ ev' = Event("reload")
  /\ Command(BossSaveCommands)
  /\ UNCHANGED <<game, projectiles, defenses, defenseManager, level, timers,
                 storage>>

BossSaveTick ==
  /\ ~AbilityDue
  /\ TickWithin(BossSaveTicks, BossDeltas)

BossSaveNext ==
  \/ BossSaveHit
  \/ BossReload
  \/ BossSaveTick

SpecBossSave == InitBoss /\ [][BossSaveNext]_vars

----------------------------------------------------------------------------
(* The shield of a boss                                                    *)

ShieldCommands == 3
ShieldTicks == 4

\* a hit the shield of 100 takes whole, and one that breaks it
ShieldHits == {40, 120}

ShieldHit == BossHitWithin(ShieldCommands, ShieldHits)

ShieldTick ==
  /\ ~AbilityDue
  /\ TickWithin(ShieldTicks, BossDeltas)

ShieldNext ==
  \/ ShieldHit
  \/ ShieldTick

SpecShield == InitBoss /\ [][ShieldNext]_vars

----------------------------------------------------------------------------
(* Projectiles that touch enemies                                          *)

ContactTicks == 5
ContactKinds == {"firewall", "encryption", "anonymity"}

\* Both collision tests read enemy.radius, which no Enemy is given; here the
\* enemies have one, so that the code behind the tests is reached.
ContactRadius == 10
ContactWound == 20

ContactEnemy(i) ==
  [NewEnemy("federalAgent", 4 * ENEMY_TYPES["federalAgent"].health) EXCEPT
     !.id = i, !.radius = Some(ContactRadius)]

\* A wave whose two enemies are on the field, and one projectile of a
\* firewall (plain) or an encryption defense (piercing) on its way to one
\* of them
InitContact ==
  /\ \E r \in RandDraws, kind \in ContactKinds, target \in {1, 2},
        wounded \in BOOLEAN :
       \E w \in {[newGame(Begin(Constructed(r), "newGame")) EXCEPT
                    !.en = <<IF wounded
                               THEN takeDamage(ContactEnemy(1), ContactWound)
                               ELSE ContactEnemy(1),
                             ContactEnemy(2)>>,
                    !.pr = <<[NewProjectile(NewDefense(40, 440, kind))
                                EXCEPT !.target = target]>>,
                    !.tm = <<>>,
                    !.lv.enemiesSpawned = 2,
                    !.lv.enemiesToSpawn = 2,
                    !.lv.ownSpawned = 2]} :
          /\ game = w.g
          /\ enemies = w.en
          /\ projectiles = w.pr
          /\ defenses = w.df
          /\ defenseManager = w.dm
          /\ level = w.lv
          /\ timers = w.tm
          /\ storage = w.st
          /\ ev = w.ev
  /\ used = [commands |-> 0, ticks |-> 0]

ContactTick == TickWithin(ContactTicks, BossDeltas)

ContactNext == ContactTick

SpecContact == InitContact /\ [][ContactNext]_vars

----------------------------------------------------------------------------
(* The first wave walking the path at the frame rate of a display          *)

\* the frame time of requestAnimationFrame at 60 Hz, and the erratic
\* offsets of a scriptKiddie in such a frame (up to 0.2 px either way)
WalkDeltas == {16}
WalkDraws == {-25, 25}

\* Game.start and New Game
InitWalk ==
  /\ \E r \in RandDraws :
       \E w \in {newGame(Begin(Constructed(r), "newGame"))} :
          /\ game = w.g
          /\ enemies = w.en
          /\ projectiles = w.pr
          /\ defenses = w.df
          /\ defenseManager = w.dm
          /\ level = w.lv
          /\ timers = w.tm
          /\ storage = w.st
          /\ ev = w.ev
  /\ used = [commands |-> 0, ticks |-> 0]

\* Game.gameLoop while the first wave is in progress; nothing is placed
WalkTick ==
  /\ game.state = "playing"
  /\ level.waveInProgress
  /\ Due = {}
  /\ \E dt \in WalkDeltas, jit \in WalkDraws :
       Install(Frame(dt, jit, 0, FALSE, FALSE))
  /\ UNCHANGED used

WalkNext ==
  \/ TimerFire
  \/ WalkTick

\* The browser goes on calling the animation frame and runs the callbacks
\* of setTimeout that are due.
SpecWalk ==
  /\ InitWalk
  /\ [][WalkNext]_vars
  /\ WF_vars(TimerFire)
  /\ WF_vars(WalkTick)

----------------------------------------------------------------------------
(* Life loss of bosses                                                     *)

----------------------------------------------------------------------------
(* The end of the campaign                                                 *)

\* C11: a step in which Level.startWave is asked for a wave number above
\* maxWaves starts no wave (no start is recorded, the current wave and its
\* counters stay, no spawn callback is scheduled and no enemy appears) and
\* leaves the game in the state VICTORY.
C11_BeyondLastWaveIsVictory ==
  [][ ev'.refused # <<>> =>
        /\ \A k \in 1..Len(ev'.refused) : ev'.refused[k] > maxWaves
        /\ ev'.starts = <<>>
        /\ level'.currentWave = level.currentWave
        /\ level'.enemiesSpawned = level.enemiesSpawned
        /\ level'.enemiesToSpawn = level.enemiesToSpawn
        /\ level'.waveInProgress = level.waveInProgress
        /\ Len(timers') = Len(timers)
        /\ Len(enemies') <= Len(enemies)
        /\ game'.state = "victory"
        /\ game'.isVictory ]_vars

\* C11 happens: N was pressed while wave 20 was the last one started, the
\* request for wave 21 was turned down and the game is in VICTORY.
C11_Witness ==
  /\ ev.op = "nextWaveKey"
  /\ ev.refused = <<maxWaves + 1>>
  /\ level.currentWave = maxWaves
  /\ game.state = "victory"

----------------------------------------------------------------------------
(* The pause between waves                                                 *)

\* C12: while a completed wave is the last thing that happened to the
\* schedule (no wave was asked for since), a frame whose Game.update runs
\* starts the next wave exactly when the time given to Level.update since
\* the completion has reached WAVE_DELAY, and the wave it starts is the one
\* after the completed wave; frames of an earlier time start nothing.
C12_AutoStartAfterDelay ==
  [][ /\ ev'.op = "tick"
      /\ ev'.ran
      /\ level.idle >= 0
      /\ level.currentWave < maxWaves
      => /\ (ev'.starts # <<>>) <=> (level.idle + ev'.dt >= WAVE_DELAY)
         /\ ev'.starts # <<>> =>
               /\ Len(ev'.starts) = 1
               /\ ev'.starts[1].wave = level.currentWave + 1
               /\ level'.currentWave = level.currentWave + 1
               /\ level'.waveInProgress ]_vars

\* C12 happens: a frame started wave 2 by itself, 5000 ms after wave 1 was
\* completed.
C12_Witness ==
  /\ ev.op = "tick"
  /\ Len(ev.starts) = 1
  /\ ev.starts[1].wave = 2
  /\ ~ev.starts[1].wasInProgress
  /\ level.currentWave = 2

----------------------------------------------------------------------------
(* Saving and loading                                                      *)

\* what a save is to bring back of a defense
DefenseView(d) ==
  [type |-> d.type, x |-> d.x, y |-> d.y, level |-> d.level,
   damage |-> d.damage, range |-> d.range, fireRate |-> d.fireRate]

\* ... and of an enemy
EnemyView(e) ==
  [type |-> e.type, x |-> e.x, health |-> e.health, pathIndex |-> e.pathIndex]

\* C13: a load that follows a successful save at once succeeds and leaves
\* the resources, lives, wave and score, every defense (kind, cell, level,
\* damage, range, fire rate), every enemy (health, path index) and the
\* flags and counters of the wave scheduler as they were when saved.
C13_RoundTrip ==
  [][ ev.op \in {"save", "autosave"} /\ ev.saved /\ ev'.op = "load" =>
        /\ ev'.loaded
        /\ game'.resources = game.resources
        /\ game'.lives = game.lives
        /\ game'.wave = game.wave
        /\ game'.score = game.score
        /\ [k \in 1..Len(game'.defenses) |->
              DefenseView(defenses'[game'.defenses[k]])]
             = [k \in 1..Len(game.defenses) |->
                  DefenseView(defenses[game.defenses[k]])]
        /\ [k \in 1..Len(enemies') |-> EnemyView(enemies'[k])]
             = [k \in 1..Len(enemies) |-> EnemyView(enemies[k])]
        /\ level'.currentWave = level.currentWave
        /\ level'.waveInProgress = level.waveInProgress
        /\ level'.waveTimer = level.waveTimer
        /\ level'.enemiesSpawned = level.enemiesSpawned
        /\ level'.enemiesToSpawn = level.enemiesToSpawn ]_vars

\* the objects a load may write are as they were
LoadChangedNothing ==
  /\ game' = game
  /\ enemies' = enemies
  /\ projectiles' = projectiles
  /\ defenses' = defenses
  /\ defenseManager' = defenseManager
  /\ level' = level

\* C14: a load of a document whose major version is not the engine's
\* reports failure and changes nothing of the game.
C14_MajorMismatchRefused ==
  [][ /\ ev'.op = "load"
      /\ storage[currentSlot] # None
      /\ The(storage[currentSlot]).version[1] # saveVersion[1]
      => ~ev'.loaded /\ LoadChangedNothing ]_vars

\* a document without a required field, or with a defense or an enemy of
\* an unknown kind
InvalidDoc(doc) ==
  LET gameData == The(doc.gameData)
  IN  \/ gameData.resources = None
      \/ gameData.levelData = None
      \/ \E k \in 1..Len(gameData.defenses) :
            gameData.defenses[k].type \notin DefenseKinds
      \/ \E k \in 1..Len(gameData.enemies) :
            gameData.enemies[k].type
               \notin (DOMAIN ENEMY_TYPES \cup DOMAIN BOSS_TYPES)

\* C15: a load of an invalid document (a required field missing, a defense
\* or enemy of an unknown kind) reports failure and leaves the game as it
\* was, with no field of the document applied.
C15_InvalidLoadIsAtomic ==
  [][ /\ ev'.op = "load"
      /\ storage[currentSlot] # None
      /\ InvalidDoc(The(storage[currentSlot]))
      => ~ev'.loaded /\ LoadChangedNothing ]_vars

----------------------------------------------------------------------------
(* Upgrading a defense                                                     *)

\* the cost of upgrading a defense of the given kind from the given level:
\* the kind's cost times 1.5^level, the bandwidth times 0.5, the anonymity
\* times 0.3, each floored
CostOf(type, lvl) ==
  LET cost == DEFENSE_TYPES[type].cost
  IN  Res((cost.dharma * Pow(3, lvl)) \div Pow(2, lvl),
          (cost.bandwidth * Pow(3, lvl)) \div (2 * Pow(2, lvl)),
          (3 * cost.anonymity * Pow(3, lvl)) \div (10 * Pow(2, lvl)))

\* C17: an upgrade command on a defense goes through exactly when the
\* defense's level is below 5 and the resources cover the upgrade cost;
\* then exactly the cost is debited and the level rises, and otherwise the
\* game, the defenses and the manager are as they were.
C17_UpgradeIffAllowed ==
  [][ ev'.op = "upgrade" =>
        LET d == defenses[ev'.target]
            cost == CostOf(d.type, d.level)
            allowed == /\ d.level < 5
                       /\ game.resources.dharma >= cost.dharma
                       /\ game.resources.bandwidth >= cost.bandwidth
                       /\ game.resources.anonymity >= cost.anonymity
        IN  /\ ev'.upgraded <=> allowed
            /\ allowed =>
                  /\ game'.resources = SubRes(game.resources, cost)
                  /\ defenses'[ev'.target].level > d.level
            /\ ~allowed =>
                  /\ game' = game
                  /\ defenses' = defenses
                  /\ defenseManager' = defenseManager ]_vars

\* C17 happens: an upgrade was paid for and went through, ...
C17_Witness ==
  /\ ev.op = "upgrade"
  /\ ev.upgraded
  /\ defenses[ev.target].type = "firewall"
  /\ defenses[ev.target].level = 2
  /\ game.resources.dharma = 445 - 25 - 37

\* ... one was turned down at level 5, and one for want of resources.
C17_WitnessMaxLevel ==
  /\ ev.op = "upgrade"
  /\ ~ev.upgraded
  /\ defenses[ev.target].level = maxLevel

C17_WitnessPoor ==
  /\ ev.op = "upgrade"
  /\ ~ev.upgraded
  /\ defenses[ev.target].level < maxLevel

\* C18: the effective fire-rate interval of every defense on the field is
\* at least 100 ms (1000 tenths), whatever its level, buffs and debuffs.
C18_FireRateAtLeast100 ==
  \A i \in 1..Len(game.defenses) :
     getFireRate(defenses[game.defenses[i]]) >= 10 * 100

\* C18 happens: a defense is boosted and slowed at once and only the lower
\* bound holds its interval up (a decoy, whose fire rate is 0).
C18_Witness ==
  \E i \in 1..Len(game.defenses) :
     LET d == defenses[game.defenses[i]]
     IN  /\ FireRateUnbounded(d) < 10 * 100
         /\ d.boosted > 0
         /\ d.slowed > 0

----------------------------------------------------------------------------
(* The resources                                                           *)

C16_WitnessTheft ==
  /\ ev.op = "tick"
  /\ game.defenses # <<>>
  /\ game.resources.bandwidth = 45
  /\ game.resources.dharma < 75

\* ... and the bonus of a boss wave was paid.
C16_WitnessBonus ==
  /\ ev.op = "tick"
  /\ ~level.waveInProgress
  /\ game.resources.dharma >= 100 + 100 + 50 + 10 * level.currentWave

----------------------------------------------------------------------------
(* Boss phases                                                             *)

DamageTaken(e) == (e.maxHealth - e.health) \div 4

\* the phase of a boss of 500 health and three phases after the given
\* damage: the thirds of its health
PhaseAt(damage) ==
  IF 3 * damage <= 500 THEN 1 ELSE IF 3 * damage <= 1000 THEN 2 ELSE 3

IsRaidTeam500(e) ==
  e.boss /\ e.type = "raidTeam" /\ e.maxHealth = 4 * 500 /\ ~e.isDead

C20_WitnessFirstPhase ==
  /\ ev.op = "tick"
  /\ ev.ran
  /\ \E i \in 1..Len(enemies) :
       /\ IsRaidTeam500(enemies[i])
       /\ DamageTaken(enemies[i]) = 125
       /\ enemies[i].currentPhase = 1
       /\ enemies[i].phaseChanges = 0

----------------------------------------------------------------------------
(* The shield of a boss                                                    *)

C21_WitnessAbsorbed ==
  /\ ev.op = "hit"
  /\ ev.amount = 40
  /\ LET e == enemies[ev.target]
     IN  /\ e.shieldHealth = 60
         /\ e.shieldActive
         /\ e.health = e.maxHealth

----------------------------------------------------------------------------
(* Projectiles                                                             *)

\* how often the enemy with the given identity occurs in a sequence
Times(seq, id) == Cardinality({k \in 1..Len(seq) : seq[k] = id})

----------------------------------------------------------------------------
(* The first wave without defenses                                         *)

FirstWaveCount ==
  LET counts == GroupCounts(level.waveConfigs[1].enemies)
  IN  SumOver(counts, Indices(Len(counts)))

\* the first wave is over: all its enemies were spawned, none is left and
\* each has taken one life
FirstWaveWalked ==
  /\ level.currentWave = 1
  /\ ~level.waveInProgress
  /\ level.enemiesSpawned = FirstWaveCount
  /\ enemies = <<>>
  /\ game.lives = INITIAL_LIVES - FirstWaveCount

----------------------------------------------------------------------------
(* Two instances side by side                                              *)

\* C25: two instances of the engine that are in the same state and are
\* given the same frame are in the same state after it: the state a frame
\* leaves is the one it leaves under any other run of Math.random (the
\* engine takes no seed).
C25_SameStateAfterEveryTick ==
  [][ ev'.op = "tick" =>
        \A jit \in WalkDraws : Frame(ev'.dt, jit, 0, FALSE, FALSE) = World' ]_vars


-----------------------------------------------------------------------------
(* The player who has just built a first defense at the start of a game     *)
(* and goes on building while the frames pass.                              *)

CooldownCommands == 3
CooldownTicks == 4

CooldownPoints == {<<50, 450>>, <<130, 450>>, <<135, 455>>}

InitCooldown ==
  /\ \E r \in RandDraws, p \in CooldownPoints :
       \E n \in {newGame(Begin(Constructed(r), "newGame"))} :
          \E w \in {handleClick([Begin(n, "click") EXCEPT !.ev.click = p],
                                p[1], p[2])} :
             /\ w.ev.placed
             /\ game = w.g
             /\ enemies = w.en
             /\ projectiles = w.pr
             /\ defenses = w.df
             /\ defenseManager = w.dm
             /\ level = w.lv
             /\ timers = w.tm
             /\ storage = w.st
             /\ ev = w.ev
  /\ used = [commands |-> 0, ticks |-> 0]

CooldownClick == ClickAt(CooldownCommands, CooldownPoints)
CooldownSelectKey == SelectKeyWithin(CooldownCommands)
CooldownPauseKey == PauseKeyWithin(CooldownCommands)
CooldownTick == TickWithin(CooldownTicks, Deltas)

CooldownNext ==
  \/ CooldownClick
  \/ CooldownSelectKey
  \/ CooldownPauseKey
  \/ TimerFire
  \/ CooldownTick

SpecCooldown == InitCooldown /\ [][CooldownNext]_vars

\* C26: once frames worth the placement cooldown of 500 ms have been played
\* since the first defense was built (the wave timer, which Game.updateTimers
\* counts down by every played frame, has fallen by that much), a click on
\* a free cell off the path with the price of the selected defense in hand
\* builds the second defense.
C26_PlacesAgainAfterCooldown ==
  [][ ( /\ ev'.op = "click"
        /\ game.state = "playing"
        /\ Len(defenses) = 1
        /\ game.waveTimer <= WAVE_DELAY - defenseManager.placementCooldown
        /\ canAfford(World, DEFENSE_TYPES[game.selectedDefenseType].cost)
        /\ isValidPlacement(World, ev'.click[1], ev'.click[2]) )
      => ev'.placed ]_vars


\* C27: the game enters VICTORY only when the last of the maxWaves waves
\* has been started and completed: in the step that makes the state
\* VICTORY, wave maxWaves is the current wave of the level, it is not in
\* progress any more, none of its spawn callbacks is pending and the step
\* is not one that only asks for the next wave.
C27_VictoryOnlyAfterLastWaveCompleted ==
  [][ game.state # "victory" /\ game'.state = "victory" =>
        /\ level.currentWave = maxWaves
        /\ ~level.waveInProgress
        /\ ~\E k \in 1..Len(timers) : timers[k].cur
        /\ ev'.op # "nextWaveKey" ]_vars


-----------------------------------------------------------------------------
(* A corporateSaboteur of wave 4 on the first leg of the path, in range of  *)
(* the defense the player has built.                                        *)

StealthTicks == 8
StealthDeltas == {250}
StealthKinds == {"firewall", "anonymity"}
StealthWave == 4

\* the enemies of the wave that are on the first leg: a saboteur, with or
\* without a federalAgent next to it
StealthEnemies(plan, escorted) ==
  <<NewEnemy(plan.enemies[3].type,
      ScaledHealth(ENEMY_TYPES[plan.enemies[3].type].health,
                   plan.enemies[3].health))>>
  \o (IF escorted
        THEN <<NewEnemy(plan.enemies[2].type,
                 ScaledHealth(ENEMY_TYPES[plan.enemies[2].type].health,
                              plan.enemies[2].health))>>
        ELSE <<>>)

InitStealth ==
  /\ \E r \in RandDraws, kind \in StealthKinds, escorted \in BOOLEAN :
       \E n \in {selectDefenseType(
                   newGame(Begin(Constructed(r), "newGame")), kind)} :
          \E b \in {Pressed(handleClick(n, 50, 450), StealthWave - 1)} :
             \E w \in {[b EXCEPT
                          !.en = StealthEnemies(
                                   b.lv.waveConfigs[StealthWave], escorted),
                          !.tm = <<>>,
                          !.lv.enemiesSpawned = b.lv.enemiesToSpawn,
                          !.lv.ownSpawned = b.lv.enemiesToSpawn]} :
                /\ Len(w.df) = 1
                /\ game = w.g
                /\ enemies = w.en
                /\ projectiles = w.pr
                /\ defenses = w.df
                /\ defenseManager = w.dm
                /\ level = w.lv
                /\ timers = w.tm
                /\ storage = w.st
                /\ ev = w.ev
  /\ used = [commands |-> 0, ticks |-> 0]

StealthTick == TickWithin(StealthTicks, StealthDeltas)

StealthNext == StealthTick

SpecStealth == InitStealth /\ [][StealthNext]_vars

\* C28: no defense fires at an enemy that is stealthed: whenever a defense
\* fires in a frame, one of the enemies in its range, which are the enemies
\* its target is among, is not stealthed.
C28_NoShotAtStealthed ==
  ev.op = "tick" =>
    \A k \in 1..Len(ev.shots) :
       ev.shots[k].inRange \ ev.shots[k].stealthed # {}


-----------------------------------------------------------------------------
(* The raidTeam of wave 5 at the start of the path, in range of the         *)
(* defense the player has built, and its EMP blasts.                        *)

EmpCommands == 2
EmpTicks == 6
EmpKinds == {"firewall", "anonymity"}
EmpWave == 5

InitEmp ==
  /\ \E r \in RandDraws, kind \in EmpKinds :
       \E n \in {selectDefenseType(
                   newGame(Begin(Constructed(r), "newGame")), kind)} :
          \E b \in {Pressed(handleClick(n, 50, 450), EmpWave - 1)} :
             \E w \in {[b EXCEPT
                          !.en = <<NewBoss(b.lv.currentWaveConfig.enemies[1].type,
                                     ScaledHealth(
                                       BOSS_TYPES[b.lv.currentWaveConfig
                                                    .enemies[1].type].health,
                                       b.lv.currentWaveConfig.enemies[1].health))>>,
                          !.tm = <<>>,
                          !.lv.enemiesSpawned = b.lv.enemiesToSpawn,
                          !.lv.ownSpawned = b.lv.enemiesToSpawn,
                          !.lv.bossCalls = 1,
                          !.lv.bossSpawned = 1]} :
                /\ Len(w.df) = 1
                /\ game = w.g
                /\ enemies = w.en
                /\ projectiles = w.pr
                /\ defenses = w.df
                /\ defenseManager = w.dm
                /\ level = w.lv
                /\ timers = w.tm
                /\ storage = w.st
                /\ ev = w.ev
  /\ used = [commands |-> 0, ticks |-> 0]

\* the raidTeam's Boss.performEMPBlast
EmpBlast ==
  /\ game.state = "playing"
  /\ \E i \in 1..Len(enemies) :
       /\ enemies[i].type = "raidTeam"
       /\ ~enemies[i].isDead
       /\ \E w \in {[Begin(World, "empBlast") EXCEPT !.ev.target = i]} :
            Install(performEMPBlast(w, enemies[i]))
  /\ Command(EmpCommands)

EmpTick ==
  /\ ~AbilityDue
  /\ TickWithin(EmpTicks, Deltas)

EmpNext ==
  \/ EmpBlast
  \/ EmpTick

SpecEmp == InitEmp /\ [][EmpNext]_vars

C30_ReapplyKeepsLonger ==
  [][ ev'.op \in {"boost", "slow"} =>
        LET j == ev'.target
            was == IF ev'.op = "boost" THEN defenses[j].boosted
                   ELSE defenses[j].slowed
            is == IF ev'.op = "boost" THEN defenses'[j].boosted
                  ELSE defenses'[j].slowed
        IN  was > 0 => is = Max(was, ev'.duration) ]_vars


C33_DamageByLevelAndBuffs ==
  \A j \in 1..Len(defenses) :
     getDamage(defenses[j]) =
       (DEFENSE_TYPES[defenses[j].type].damage
          * (10 + 2 * defenses[j].level)
          * (IF defenses[j].boosted > 0 THEN 3 ELSE 2)) \div 20


\* C34: an upgrade that was paid for raises the level of the defense by
\* exactly one, and no defense is ever above level maxLevel.
C34_UpgradeRaisesLevelByOne ==
  [][ /\ \A j \in 1..Len(defenses') : defenses'[j].level <= maxLevel
      /\ ev'.op = "upgrade" /\ ev'.upgraded =>
           defenses'[ev'.target].level = defenses[ev'.target].level + 1 ]_vars


\* C35: while the game is PAUSED the simulation is frozen: a step that
\* begins and ends in PAUSED spawns no enemy, moves none and leaves the
\* counters of the game and of the level as they were.
C35_PausedIsFrozen ==
  [][ game.state = "paused" /\ game'.state = "paused" =>
        /\ enemies' = enemies
        /\ projectiles' = projectiles
        /\ level' = level
        /\ game' = game ]_vars


\* C36: the enemies spawned in a wave are never more than the wave's plan
\* holds, and a callback that adds an enemy is one that the wave in
\* progress scheduled.
C36_SpawnsWithinPlan ==
  /\ level.enemiesSpawned <= level.enemiesToSpawn
  /\ level.ownSpawned = level.enemiesSpawned


\* C37: the wave number the game holds, shows and saves is the current
\* wave of the level, whichever way the waves were started.
C37_GameWaveIsLevelWave == game.wave = level.currentWave

----------------------------------------------------------------------------
(* The special abilities                                                   *)

AbilityCommands == 3
AbilityTicks == 8
AbilityDeltas == {2500, 5000}
AbilityKinds == {"firewall", "distributor"}

RECURSIVE ActivateFrom(_, _, _)
ActivateFrom(w, i, defenseType) ==
  IF i > Len(w.dm.defenses) THEN w
  ELSE LET k == w.dm.defenses[i]
       IN  ActivateFrom(
             IF w.df[k].type = defenseType /\ hasSpecialAbility(w.df[k])
               THEN activateSpecialAbility(w, k)
               ELSE w,
             i + 1, defenseType)

\* DefenseManager.activateSpecialAbility(defenseType)
ManagerActivateSpecialAbility(w, defenseType) == ActivateFrom(w, 1, defenseType)

\* DefenseManager.activateSpecialAbility for the kind of one of the
\* manager's defenses; like the calls of the upgrades it has no caller in
\* the game's own code.
AbilityCall ==
  /\ \E i \in 1..Len(defenseManager.defenses) :
       \E w \in {[Begin(World, "ability") EXCEPT
                    !.ev.target = defenseManager.defenses[i]]} :
          Install(ManagerActivateSpecialAbility(
                    w, defenses[defenseManager.defenses[i]].type))
  /\ Command(AbilityCommands)

AbilityPauseKey == PauseKeyWithin(AbilityCommands)

AbilityTick == TickWithin(AbilityTicks, AbilityDeltas)

AbilityNext ==
  \/ AbilityCall
  \/ AbilityPauseKey
  \/ TimerFire
  \/ AbilityTick

\* A game just begun, the purse of a game after its first wave (a
\* distributor costs more bandwidth than a game starts with), and one
\* defense placed by DefenseManager.tryPlaceDefense on the cell of the
\* point (50, 450)
InitAbility ==
  /\ \E r \in RandDraws, kind \in AbilityKinds :
       \E w \in {tryPlaceDefense(
                   [newGame(Begin(Constructed(r), "newGame")) EXCEPT
                      !.g.resources = Res(175, 86, 96),
                      !.g.selectedDefenseType = kind,
                      !.dm.selectedDefenseType = kind], 50, 450)} :
          /\ game = w.g
          /\ enemies = w.en
          /\ projectiles = w.pr
          /\ defenses = w.df
          /\ defenseManager = w.dm
          /\ level = w.lv
          /\ timers = w.tm
          /\ storage = w.st
          /\ ev = w.ev
  /\ used = [commands |-> 0, ticks |-> 0]

SpecAbility == InitAbility /\ [][AbilityNext]_vars

\* a distributor of the manager whose special ability is active
DistributorActive ==
  \E i \in 1..Len(defenseManager.defenses) :
     /\ defenses[defenseManager.defenses[i]].type = "distributor"
     /\ defenses[defenseManager.defenses[i]].specialAbilityActive

\* C38: game.resourceBoost is 2 while the special ability of a distributor
\* is active and 1 whenever none is.
C38_BoostFollowsAbility ==
  game.resourceBoost = IF DistributorActive THEN 2 ELSE 1

\* C38, leaving aside the time before the first activation, when
\* game.resourceBoost has no value at all
C38_BoostFollowsAbilityOnceSet ==
  game.resourceBoost # 0 =>
     game.resourceBoost = IF DistributorActive THEN 2 ELSE 1

\* the defenses that DefenseManager.activateSpecialAbility(defenseType)
\* looks at
OfKind(defenseType) ==
  {defenseManager.defenses[i] : i \in
     {j \in 1..Len(defenseManager.defenses) :
        defenses[defenseManager.defenses[j]].type = defenseType}}

\* C39: a special ability is active for the 5000 ms of simulated time that
\* follow its trigger and no longer; a trigger less than 30000 ms of
\* simulated time after the last one changes nothing, and any other
\* trigger sets the ability off.
C39_ActiveFiveSecondsEveryThirty ==
  [][ /\ \A k \in 1..Len(defenses') :
           defenses'[k].abilityAge >= 0 =>
              (defenses'[k].specialAbilityActive
                 <=> defenses'[k].abilityAge < 5000)
      /\ \A k \in 1..Len(defenses') :
           defenses'[k].abilityAge < 0 => ~defenses'[k].specialAbilityActive
      /\ ev'.op = "ability" =>
           /\ \A k \in OfKind(defenses[ev'.target].type) :
                IF defenses[k].abilityAge >= 0
                   /\ defenses[k].abilityAge < 30000
                  THEN /\ defenses'[k] = defenses[k]
                       /\ \A i \in 1..Len(ev'.activated) :
                             ev'.activated[i].defense # k
                  ELSE /\ defenses'[k].specialAbilityActive
                       /\ defenses'[k].abilityAge = 0
                       /\ \E i \in 1..Len(ev'.activated) :
                             ev'.activated[i].defense = k
           /\ ev'.activated = <<>> =>
                /\ game' = game /\ defenses' = defenses
                /\ timers' = timers /\ enemies' = enemies
                /\ projectiles' = projectiles /\ level' = level
                /\ defenseManager' = defenseManager ]_vars

\* C39 witness: an ability went off again, 30000 ms of simulated time or
\* more after it had gone off before
C39_TriggeredAgainAfterCooldown ==
  /\ ev.op = "ability"
  /\ \E i \in 1..Len(ev.activated) : ev.activated[i].age >= 30000

----------------------------------------------------------------------------
(* The order of a frame                                                    *)

\* the calls of a frame that are among the given ones, in the order made
CallsAmong(names) == SelectSeq(ev.order, LAMBDA c : c \in names)

\* C40: every frame that runs calls the wave scheduler, then the update of
\* the enemies, then that of the defenses, then that of the projectiles.
C40_DefensesBeforeProjectiles ==
  ev.ran =>
     CallsAmong({"level.update", "updateEnemies", "updateDefenses",
                 "updateProjectiles"})
       = <<"level.update", "updateEnemies", "updateDefenses",
           "updateProjectiles">>

============================================================================
